---- MODULE Spec2Model ----
(***************************************************************************)
(* Entitlement gate of the Zensai journaling client: the daily usage       *)
(* counters kept in the browser's localStorage by the usePremium hook, in  *)
(* the two builds of the hook found in the repository:                     *)
(*   build "A"  hasReachedDailyLimit / incrementUsageCounter /             *)
(*              getRemainingUses / getDailyUsageLimit                      *)
(*   build "B"  trackFeatureUsage(featureKey, limit = 2)                   *)
(***************************************************************************)
EXTENDS Integers, FiniteSets, Sequences, Bags, TLC

\* ---------------------------------------------------------------- bounds
\* The wall clock advances in ticks; TicksPerDay ticks make one day.
TicksPerDay == 2
\* Last tick of the clock.
MaxClock == 3
\* Total number of approved gate checks in one behaviour.
MaxUses == 3
\* Largest count whose decimal string the model of parseInt recognises.
MaxStored == 6

\* ------------------------------------------------------------- constants
Users == {"alice", "bob"}
Statuses == {"free", "premium", "cancelled", "expired"}
\* Offsets (in ticks) of the device's local time zone from UTC.
TzOffsets == {-1, 0, 1}
RecognizedKeys == {"prompt", "mood-analysis", "affirmation", "mood-quote"}
\* A feature key that getDailyUsageLimit does not list.
AllKeys == RecognizedKeys \cup {"other"}
Builds == {"A", "B"}

VARIABLES
    clock,      \* wall-clock time (UTC) in ticks, what new Date() reads
    tz,         \* offset of the device's local time zone from UTC, in ticks
    build,      \* which build of usePremium the device runs
    session,    \* the user signed in on the device
    status,     \* profile.subscription_status of the signed-in user
    storage,    \* localStorage of the device: storage key -> string
    pc,         \* where the running synchronous handler stands: "idle",
                \* "record" (a check passed, incrementUsageCounter follows),
                \* "generatePrompt" / "generateMoodQuoteForMood" (the
                \* handler goes on to call that function)
    last,       \* the gate operation performed last at the current tick
    passes,     \* history: approved checks of free users, per key and day
    hook,       \* per feature, the state of its generator hook
    ui,         \* AuthenticatedApp: isLoadingPrompt, promptError, upsell modal
    aiCalls,    \* history: calls of free users to the AI collaborator,
                \* per feature and day
    date,       \* the database server's CURRENT_DATE, in days
    uniqueIndex,    \* whether user_badges carries a unique index on
                    \* (user_id, badge_id)
    profiles,       \* table public.profiles: user_id -> row
    journal_entries,    \* table public.journal_entries: a bag of rows
                        \* (user_id, date, mood, length)
    user_badges,    \* table public.user_badges: a set of rows
    txn,        \* per database session, the check_and_award_badges call
                \* it is executing statement by statement
    evalSeen,   \* history: per user, the largest entry count a completed
                \* evaluation of that user has run with (-1: none yet)
    writes,     \* history: the number of writes the clients have made
    journal,    \* the state of the useJournal hook and of the badge
                \* notifications of AuthenticatedApp on the device
    analysis,   \* AuthenticatedApp's debounced mood analysis: the entry
                \* being typed, the selected mood, the timer, the
                \* analyzeMood calls awaited, and (history) the calls a
                \* free user started per day
    billing     \* create-checkout-session: the customers of the payment
                \* provider, the customer reference stored per profile,
                \* and the requests the function is serving

appVars == <<hook, ui, aiCalls>>
dbVars == <<date, uniqueIndex, profiles, journal_entries, user_badges, txn,
            evalSeen, writes>>
gateVars == <<clock, tz, build, session, status, storage, pc, last, passes,
              hook, ui, aiCalls>>
sideVars == <<analysis, billing>>
extVars == <<journal, analysis, billing>>
vars == <<clock, tz, build, session, status, storage, pc, last, passes,
          hook, ui, aiCalls, date, uniqueIndex, profiles, journal_entries,
          user_badges, txn, evalSeen, writes, journal, analysis, billing>>

\* ------------------------------------------------------------ JS numbers
Num(n) == [t |-> "num", v |-> n]
NaN == [t |-> "NaN", v |-> 0]
Infinity == [t |-> "Infinity", v |-> 0]

\* parseInt(s, 10) on the strings the store can hold: a decimal string
\* parses to its number, anything else ("abc", "NaN") to NaN.
ParseInt(s) ==
    IF \E n \in 0..MaxStored : ToString(n) = s
    THEN Num(CHOOSE n \in 0..MaxStored : ToString(n) = s)
    ELSE NaN

\* a >= b in JavaScript: false as soon as one side is NaN.
JsGeq(a, b) == a.t = "num" /\ b.t = "num" /\ a.v >= b.v

\* (a + 1).toString()
PlusOneToString(a) == IF a.t = "num" THEN ToString(a.v + 1) ELSE "NaN"

\* Math.max(0, limit - a)
MaxZeroMinus(limit, a) ==
    IF a.t = "num" THEN Num(IF limit - a.v > 0 THEN limit - a.v ELSE 0) ELSE NaN

\* ------------------------------------------------------------------ time
\* new Date().toISOString().split('T')[0]: the UTC calendar date.
IsoDate(t) == t \div TicksPerDay
today == IsoDate(clock)
\* The calendar date on the device's local clock.
LocalDate(t, z) == (t + z) \div TicksPerDay
MaxDay == MaxClock \div TicksPerDay

\* --------------------------------------------------------------- storage
\* Variant: the storage key leaves the date out.
UsageKey_nodate(featureType, day) == <<"zensai", featureType, "usage", 0>>

\* `zensai-${featureType}-usage-${today}`
UsageKey(featureType, day) == <<"zensai", featureType, "usage", day>>
\* `zensai-feature-${featureKey}-${today}`
FeatureKey(featureKey, day) == <<"zensai", "feature", featureKey, day>>

\* localStorage.getItem(storageKey) || '0'
GetItemOrZero(k) ==
    IF k \in DOMAIN storage /\ storage[k] # "" THEN storage[k] ELSE "0"

\* localStorage.setItem(storageKey, value)
SetItem(k, value) == [x \in DOMAIN storage \cup {k} |->
                        IF x = k THEN value ELSE storage[x]]

\* ------------------------------------------------------------ usePremium
isPremium == status = "premium"

\* Variant: the default branch of the lookup returns 2 as well.
getDailyUsageLimit_default2(featureType) == 2

getDailyUsageLimit(featureType) ==
    CASE featureType = "prompt" -> 2
      [] featureType = "mood-analysis" -> 2
      [] featureType = "affirmation" -> 2
      [] featureType = "mood-quote" -> 2
      [] OTHER -> 1

\* parseInt(localStorage.getItem(storageKey) || '0', 10) of build A
UsageOf(featureType) == ParseInt(GetItemOrZero(UsageKey(featureType, today)))

\* Variant: the comparison with the limit is strict (> for >=).
hasReachedDailyLimit_gt(featureType) ==
    IF isPremium THEN FALSE
    ELSE JsGeq(UsageOf(featureType), Num(getDailyUsageLimit(featureType) + 1))

\* Variant: the premium shortcut is missing.
hasReachedDailyLimit_nopremium(featureType) ==
    JsGeq(UsageOf(featureType), Num(getDailyUsageLimit(featureType)))

hasReachedDailyLimit(featureType) ==
    IF isPremium THEN FALSE
    ELSE JsGeq(UsageOf(featureType), Num(getDailyUsageLimit(featureType)))

getRemainingUses(featureType) ==
    IF isPremium THEN Infinity
    ELSE MaxZeroMinus(getDailyUsageLimit(featureType), UsageOf(featureType))

\* Variant: the counter is set to 1 whatever it held.
incrementUsageCounter_reset(featureType) ==
    IF isPremium THEN storage
    ELSE SetItem(UsageKey(featureType, today), "1")

\* The store after incrementUsageCounter(featureType).
incrementUsageCounter(featureType) ==
    IF isPremium THEN storage
    ELSE SetItem(UsageKey(featureType, today),
                 PlusOneToString(UsageOf(featureType)))

\* The default of trackFeatureUsage's limit parameter.
DefaultLimit == 2

\* parseInt(localStorage.getItem(storageKey) || '0', 10) of build B
TrackedUsageOf(featureKey) ==
    ParseInt(GetItemOrZero(FeatureKey(featureKey, today)))

\* The value trackFeatureUsage(featureKey, limit) returns.
trackFeatureUsage(featureKey, limit) ==
    IF isPremium THEN TRUE
    ELSE ~JsGeq(TrackedUsageOf(featureKey), Num(limit))

\* Variant: the use is counted before the limit is looked at.
TrackedStorage_always(featureKey, limit) ==
    IF isPremium THEN storage
    ELSE SetItem(FeatureKey(featureKey, today),
                 PlusOneToString(TrackedUsageOf(featureKey)))

\* The store after trackFeatureUsage(featureKey, limit).
TrackedStorage(featureKey, limit) ==
    IF isPremium \/ JsGeq(TrackedUsageOf(featureKey), Num(limit))
    THEN storage
    ELSE SetItem(FeatureKey(featureKey, today),
                 PlusOneToString(TrackedUsageOf(featureKey)))

\* ------------------------------------------------------- database tables
\* Last value of the server's CURRENT_DATE.
MaxDate == 1
\* Most rows of journal_entries at a time.
MaxEntries == 3
\* Most writes (of entries, goals and subscriptions) in one behaviour.
MaxWrites == 2
\* Targets and lengths of the catalog's numeric criteria.
EntryCountTarget == 2
StreakTarget == 2
MoodDiversityTarget == 2
LongEntryMinLength == 3
\* Largest weekly goal chosen.
MaxGoal == 2
\* Last date and most entries of the behaviours that only add entries.
MaxStreakDate == 3
MaxStreakEntries == 3
\* Most writes of the behaviours that add and delete entries.
MaxStreakWrites == 4

\* CHECK (subscription_tier = ANY (ARRAY['free', 'premium', 'premium_plus']))
Tiers == {"free", "premium", "premium_plus"}
\* The entries the clients write, as (mood, LENGTH(content)): a short one
\* and a long one, of two of getMoodString's moods.
EntryKinds == {<<"good", 1>>, <<"low", LongEntryMinLength>>}
\* last_entry_date IS NULL
NoDate == -1
\* DATE_TRUNC('week', ...): days in a week.
DaysPerWeek == 7

\* A user id without a row in profiles.
TargetIds == Users \cup {"nobody"}
\* Database sessions (connections) that call check_and_award_badges.
Sessions == {"s1", "s2"}

\* The rows of public.badges, in the order the loop reads them (SELECT
\* without ORDER BY: the code fixes no order; the row of a type the function
\* does not recognize is read first here): one row per criteria type the
\* function recognizes, and the three rows the migration inserts.
Catalog == <<
    [id |-> "Early Supporter", type |-> "early_supporter", target |-> 0,
     tier |-> "none"],
    [id |-> "First Step", type |-> "first_entry", target |-> 0, tier |-> "none"],
    [id |-> "Entries", type |-> "entry_count", target |-> EntryCountTarget,
     tier |-> "none"],
    [id |-> "Streak", type |-> "streak", target |-> StreakTarget,
     tier |-> "none"],
    [id |-> "Weekly Goal", type |-> "weekly_goal", target |-> 0,
     tier |-> "none"],
    [id |-> "Long Entry", type |-> "long_entry", target |-> LongEntryMinLength,
     tier |-> "none"],
    [id |-> "Mood Diversity", type |-> "mood_diversity",
     target |-> MoodDiversityTarget, tier |-> "none"],
    [id |-> "Premium Member", type |-> "subscription", target |-> 0,
     tier |-> "premium"],
    [id |-> "Premium Plus", type |-> "subscription", target |-> 0,
     tier |-> "premium_plus"] >>

BadgeIds == {Catalog[i].id : i \in 1..Len(Catalog)}

\* The row of a new profile: the columns' defaults.
NewProfile ==
    [subscription_status |-> "free", subscription_tier |-> "free",
     current_streak |-> 0, best_streak |-> 0, last_entry_date |-> NoDate,
     journaling_goal_frequency |-> MaxGoal, total_badges_earned |-> 0]

IdleTxn == [pc |-> "idle", target |-> "nobody", i |-> 0, inserted |-> {},
            profile |-> NewProfile]

\* The tables after the schema is created and the users have signed up.
InitDb ==
    /\ date = 0
    /\ profiles = [u \in Users |-> NewProfile]
    /\ journal_entries = EmptyBag
    /\ user_badges = {}
    /\ txn = [s \in Sessions |-> IdleTxn]
    /\ evalSeen = [u \in Users |-> -1]
    /\ writes = 0

\* ----------------------------------------------------------------- model
NoOp == [op |-> "none", key |-> "none", ok |-> FALSE, used |-> Num(0), day |-> 0]

PassKeys == AllKeys \X (0..MaxDay)

TotalPasses ==
    LET RECURSIVE Sum(_)
        Sum(S) == IF S = {} THEN 0
                  ELSE LET x == CHOOSE x \in S : TRUE
                       IN passes[x] + Sum(S \ {x})
    IN Sum(PassKeys)

NotePass(f) ==
    IF isPremium THEN passes
    ELSE [passes EXCEPT ![<<f, today>>] = @ + 1]

\* The features whose invocation through the application is modelled.
AppFeatures == {"prompt", "mood-quote"}

\* useState(false), useState(null) of a generator hook; result is what the
\* last call returned ("pending" while the AI call is awaited) and inflight
\* the number of AI calls awaiting their response.
IdleHook == [loading |-> FALSE, error |-> "none", result |-> "none",
             inflight |-> 0]

\* useJournal: useState([]) of entries and badges, useState(null) of
\* profile; AuthenticatedApp: useState([]) of previousBadges, no toast
\* shown. profile is null while hasProfile is FALSE; result is what the last
\* call of the hook returned; firstLoad is the earned badges of the first
\* badge list loaded, once loaded is TRUE.
NoResult == [op |-> "none", success |-> TRUE, error |-> "none"]
InitJournal ==
    [entries |-> EmptyBag, hasProfile |-> FALSE, profile |-> NewProfile,
     loaded |-> FALSE, badges |-> {}, previousBadges |-> {},
     toasts |-> <<>>, firstLoad |-> {}, result |-> NoResult]

\* The text of the entry being typed, as what the effect looks at: its
\* length and whether trim() leaves nothing.
EmptyText == [length |-> 0, blank |-> TRUE]
\* const [selectedMood, setSelectedMood] = useState<MoodLevel>(); null
NoMood == 0
InitAnalysis ==
    [entry |-> EmptyText, selectedMood |-> NoMood, timer |-> FALSE,
     inflight |-> EmptyBag, aiDetectedMood |-> NoMood,
     started |-> [d \in 0..MaxDay |-> 0]]

\* A request slot of the function that serves no request.
NoCustomer == 0
IdleRequest == [pc |-> "idle", userId |-> "nobody", customerId |-> NoCustomer,
                status |-> 0]
Requests == {"r1", "r2"}
InitBilling ==
    [customers |-> {},
     revenuecat_user_id |-> [u \in Users |-> NoCustomer],
     checkouts |-> {},
     req |-> [r \in Requests |-> IdleRequest]]

InitExt ==
    /\ journal = InitJournal
    /\ analysis = InitAnalysis
    /\ billing = InitBilling

InitGate ==
    /\ clock = 0
    /\ tz \in TzOffsets
    /\ build \in Builds
    /\ session \in Users
    /\ status \in Statuses
    /\ storage = [k \in {} |-> ""]
    /\ pc = "idle"
    /\ last = NoOp
    /\ passes = [k \in PassKeys |-> 0]
    /\ hook = [f \in AppFeatures |-> IdleHook]
    /\ ui = [isLoadingPrompt |-> TRUE, promptError |-> FALSE,
             isUpsellModalOpen |-> FALSE]
    /\ aiCalls = [k \in AppFeatures \X (0..MaxDay) |-> 0]

\* The gate is exercised over a database that stays as created.
Init == InitGate /\ InitDb /\ uniqueIndex = TRUE /\ InitExt

\* Time passes. A synchronous handler runs within one tick.
Tick ==
    /\ pc = "idle"
    /\ clock < MaxClock
    /\ clock' = clock + 1
    /\ last' = NoOp
    /\ UNCHANGED <<dbVars, extVars, tz, build, session, status, storage, pc, passes, appVars>>

\* The profile of the signed-in user changes (a billing webhook) and the
\* client reloads it.
SubscriptionUpdate(s) ==
    /\ pc = "idle"
    /\ s # status
    /\ status' = s
    /\ last' = NoOp
    /\ UNCHANGED <<dbVars, extVars, clock, tz, build, session, storage, pc, passes, appVars>>

\* Another user signs in on the same device; the profile loaded is theirs.
SignIn(u, s) ==
    /\ pc = "idle"
    /\ u # session
    /\ session' = u
    /\ status' = s
    /\ last' = NoOp
    /\ UNCHANGED <<dbVars, extVars, clock, tz, build, storage, pc, passes, appVars>>

\* Build A: if (!hasReachedDailyLimit(f)) { incrementUsageCounter(f); ... }
CheckLimit(f) ==
    /\ build = "A"
    /\ pc = "idle"
    /\ TotalPasses < MaxUses
    /\ LET reached == hasReachedDailyLimit(f)
       IN /\ last' = [op |-> "hasReachedDailyLimit", key |-> f,
                      ok |-> ~reached, used |-> UsageOf(f),
                      day |-> today]
          /\ pc' = IF reached THEN "idle" ELSE "record"
          /\ passes' = IF reached THEN passes ELSE NotePass(f)
    /\ UNCHANGED <<dbVars, extVars, clock, tz, build, session, status, storage, appVars>>

RecordUse ==
    /\ build = "A"
    /\ pc = "record"
    /\ storage' = incrementUsageCounter(last.key)
    /\ last' = [op |-> "incrementUsageCounter", key |-> last.key,
                ok |-> TRUE, used |-> UsageOf(last.key), day |-> today]
    /\ pc' = "idle"
    /\ UNCHANGED <<dbVars, extVars, clock, tz, build, session, status, passes, appVars>>

\* Build B: trackFeatureUsage(f), the limit left to its default.
TrackFeatureUsage(f) ==
    /\ build = "B"
    /\ pc = "idle"
    /\ TotalPasses < MaxUses
    /\ LET ok == trackFeatureUsage(f, DefaultLimit)
       IN /\ last' = [op |-> "trackFeatureUsage", key |-> f, ok |-> ok,
                      used |-> TrackedUsageOf(f), day |-> today]
          /\ passes' = IF ok THEN NotePass(f) ELSE passes
    /\ storage' = TrackedStorage(f, DefaultLimit)
    /\ UNCHANGED <<dbVars, extVars, clock, tz, build, session, status, pc, appVars>>

Next ==
    \/ Tick
    \/ \E s \in Statuses : SubscriptionUpdate(s)
    \/ \E u \in Users, s \in Statuses : SignIn(u, s)
    \/ \E f \in AllKeys : CheckLimit(f)
    \/ RecordUse
    \/ \E f \in AllKeys : TrackFeatureUsage(f)

Spec == Init /\ [][Next]_vars

\* ------------------------------------------------------- tampered store
\* Values of a counter that are not the decimal string of a count.
GarbageValues == {"abc", ""}

IsCount(v) == ParseInt(v).t = "num" /\ v # ""

\* The store is client-side and writable outside the hook: today's counter
\* of a feature is overwritten with a value that is no count. At most one
\* counter of the store is unreadable at a time.
CorruptStore(f, v) ==
    /\ pc = "idle"
    /\ \A k \in DOMAIN storage : IsCount(storage[k])
    /\ storage' = SetItem(IF build = "A" THEN UsageKey(f, today)
                          ELSE FeatureKey(f, today), v)
    /\ last' = NoOp
    /\ UNCHANGED <<dbVars, extVars, clock, tz, build, session, status, pc, passes, appVars>>

NextFault ==
    \/ Tick
    \/ \E f \in AllKeys : CheckLimit(f)
    \/ RecordUse
    \/ \E f \in AllKeys : TrackFeatureUsage(f)
    \/ \E f \in RecognizedKeys, v \in GarbageValues : CorruptStore(f, v)

\* Neither the time zone nor the signed-in user is read by the gate: one of
\* each is followed.
InitFault == Init /\ tz = 0 /\ session = "alice"

SpecFault == InitFault /\ [][NextFault]_vars

\* ------------------------------------------- feature invocation wrappers
\* Most AI calls of one hook awaited at a time.
MaxInFlight == 2

\* The key a build-B hook passes to trackFeatureUsage.
HookKey(f) == IF f = "prompt" THEN "prompt-generator"
              ELSE "mood-quote-generator"

TotalAiCalls ==
    LET RECURSIVE Sum(_)
        Sum(S) == IF S = {} THEN 0
                  ELSE LET x == CHOOSE x \in S : TRUE
                       IN aiCalls[x] + Sum(S \ {x})
    IN Sum(AppFeatures \X (0..MaxDay))

NoteAiCall(f) ==
    IF isPremium THEN aiCalls
    ELSE [aiCalls EXCEPT ![<<f, today>>] = @ + 1]

\* A handler may start while the budget of the model lasts.
MayInvoke(f) ==
    /\ pc = "idle"
    /\ TotalAiCalls < MaxUses
    /\ hook[f].inflight < MaxInFlight

Op(name, f, ok, used) ==
    [op |-> name, key |-> f, ok |-> ok, used |-> used, day |-> today]

\* Build A, AuthenticatedApp.handleGenerateNewPrompt up to its call of
\* generatePrompt.
HandleGenerateNewPrompt ==
    /\ build = "A"
    /\ MayInvoke("prompt")
    /\ IF ~isPremium /\ hasReachedDailyLimit("prompt")
       THEN /\ ui' = [ui EXCEPT !.isLoadingPrompt = FALSE,
                                !.promptError = FALSE,
                                !.isUpsellModalOpen = TRUE]
            /\ pc' = "idle"
            /\ storage' = storage
            /\ last' = Op("handleGenerateNewPrompt", "prompt", FALSE,
                          UsageOf("prompt"))
       ELSE /\ ui' = [ui EXCEPT !.isLoadingPrompt = TRUE,
                                !.promptError = FALSE]
            /\ pc' = "generatePrompt"
            /\ storage' = incrementUsageCounter("prompt")
            /\ last' = Op("handleGenerateNewPrompt", "prompt", TRUE,
                          UsageOf("prompt"))
    /\ UNCHANGED <<dbVars, extVars, clock, tz, build, session, status, passes, hook, aiCalls>>

\* Build A, AuthenticatedApp.loadDailyPrompt (on mount) up to its call of
\* generatePrompt.
LoadDailyPrompt ==
    /\ build = "A"
    /\ MayInvoke("prompt")
    /\ ui' = [ui EXCEPT !.isLoadingPrompt = TRUE, !.promptError = FALSE]
    /\ pc' = "generatePrompt"
    /\ last' = NoOp
    /\ UNCHANGED <<dbVars, extVars, clock, tz, build, session, status, storage, passes, hook,
                   aiCalls>>

\* Build A, usePromptGenerator.generatePrompt up to its await, and on a
\* denial the rest of the calling handler (a null prompt makes it set
\* promptError and clear isLoadingPrompt).
GeneratePromptA ==
    /\ build = "A"
    /\ pc = "generatePrompt"
    /\ pc' = "idle"
    /\ IF ~isPremium /\ hasReachedDailyLimit("prompt")
       THEN /\ hook' = [hook EXCEPT !["prompt"].loading = FALSE,
                                    !["prompt"].error = "limit",
                                    !["prompt"].result = "null"]
            /\ ui' = [ui EXCEPT !.isLoadingPrompt = FALSE,
                                !.promptError = TRUE]
            /\ storage' = storage
            /\ aiCalls' = aiCalls
            /\ last' = Op("generatePrompt", "prompt", FALSE, UsageOf("prompt"))
       ELSE /\ hook' = [hook EXCEPT !["prompt"].loading = TRUE,
                                    !["prompt"].error = "none",
                                    !["prompt"].result = "pending",
                                    !["prompt"].inflight = @ + 1]
            /\ ui' = ui
            /\ storage' = incrementUsageCounter("prompt")
            /\ aiCalls' = NoteAiCall("prompt")
            /\ last' = Op("generatePrompt", "prompt", TRUE, UsageOf("prompt"))
    /\ UNCHANGED <<dbVars, extVars, clock, tz, build, session, status, passes>>

\* Build A, the mood-quote step of AuthenticatedApp.handleSubmit, reached
\* once the entry is saved and the affirmation shown.
HandleSubmitMoodQuote ==
    /\ build = "A"
    /\ MayInvoke("mood-quote")
    /\ IF isPremium \/ ~hasReachedDailyLimit("mood-quote")
       THEN /\ storage' = incrementUsageCounter("mood-quote")
            /\ pc' = "generateMoodQuoteForMood"
            /\ last' = Op("handleSubmit", "mood-quote", TRUE,
                          UsageOf("mood-quote"))
       ELSE /\ storage' = storage
            /\ pc' = "idle"
            /\ last' = Op("handleSubmit", "mood-quote", FALSE,
                          UsageOf("mood-quote"))
    /\ UNCHANGED <<dbVars, extVars, clock, tz, build, session, status, passes, appVars>>

\* Build A, AuthenticatedApp.handleMoodSelect up to its call of
\* generateMoodQuoteForMood.
HandleMoodSelect ==
    /\ build = "A"
    /\ MayInvoke("mood-quote")
    /\ pc' = "generateMoodQuoteForMood"
    /\ last' = NoOp
    /\ UNCHANGED <<dbVars, extVars, clock, tz, build, session, status, storage, passes,
                   appVars>>

\* Build A, AuthenticatedApp.generateMoodQuoteForMood up to the await of
\* generateMoodQuote.
GenerateMoodQuoteForMood ==
    /\ build = "A"
    /\ pc = "generateMoodQuoteForMood"
    /\ pc' = "idle"
    /\ IF ~isPremium /\ hasReachedDailyLimit("mood-quote")
       THEN /\ ui' = [ui EXCEPT !.isUpsellModalOpen = TRUE]
            /\ hook' = hook
            /\ storage' = storage
            /\ aiCalls' = aiCalls
            /\ last' = Op("generateMoodQuoteForMood", "mood-quote", FALSE,
                          UsageOf("mood-quote"))
       ELSE /\ ui' = ui
            /\ hook' = [hook EXCEPT !["mood-quote"].loading = TRUE,
                                    !["mood-quote"].error = "none",
                                    !["mood-quote"].result = "pending",
                                    !["mood-quote"].inflight = @ + 1]
            /\ storage' = incrementUsageCounter("mood-quote")
            /\ aiCalls' = NoteAiCall("mood-quote")
            /\ last' = Op("generateMoodQuoteForMood", "mood-quote", TRUE,
                          UsageOf("mood-quote"))
    /\ UNCHANGED <<dbVars, extVars, clock, tz, build, session, status, passes>>

\* Build B, usePromptGenerator.generatePrompt (f = "prompt") and
\* useMoodQuoteGenerator.generateMoodQuote (f = "mood-quote") up to the
\* await of the edge function.
GenerateB(f) ==
    /\ build = "B"
    /\ MayInvoke(f)
    /\ IF ~isPremium /\ ~trackFeatureUsage(HookKey(f), DefaultLimit)
       THEN /\ hook' = [hook EXCEPT ![f].loading = FALSE,
                                    ![f].error = "limit",
                                    ![f].result = "null"]
            /\ aiCalls' = aiCalls
       ELSE /\ hook' = [hook EXCEPT ![f].loading = TRUE,
                                    ![f].error = "none",
                                    ![f].result = "pending",
                                    ![f].inflight = @ + 1]
            /\ aiCalls' = NoteAiCall(f)
    /\ storage' = IF isPremium THEN storage
                  ELSE TrackedStorage(HookKey(f), DefaultLimit)
    /\ last' = Op(IF f = "prompt" THEN "generatePrompt"
                  ELSE "generateMoodQuote", f,
                  isPremium \/ trackFeatureUsage(HookKey(f), DefaultLimit),
                  TrackedUsageOf(HookKey(f)))
    /\ UNCHANGED <<dbVars, extVars, clock, tz, build, session, status, pc, passes, ui>>

\* Variant: a failed call takes the use back from today's counter.
AiReturns_rollback(f, success) ==
    /\ pc = "idle"
    /\ hook[f].inflight > 0
    /\ hook' = [hook EXCEPT
                  ![f].loading = FALSE,
                  ![f].inflight = @ - 1,
                  ![f].error = IF success THEN @ ELSE "failed",
                  ![f].result = IF success \/ (f = "mood-quote" /\ build = "B")
                                THEN "value" ELSE "null"]
    /\ ui' = IF build = "A" /\ f = "prompt"
             THEN [ui EXCEPT !.isLoadingPrompt = FALSE,
                             !.promptError = ~success]
             ELSE ui
    /\ last' = NoOp
    /\ storage' =
          LET k == IF build = "A" THEN UsageKey(f, today)
                   ELSE FeatureKey(HookKey(f), today)
              used == ParseInt(GetItemOrZero(k))
          IN IF ~success /\ ~isPremium /\ used.t = "num" /\ used.v > 0
             THEN SetItem(k, ToString(used.v - 1))
             ELSE storage
    /\ UNCHANGED <<dbVars, extVars, clock, tz, build, session, status, pc, passes,
                   aiCalls>>

\* The edge function answers an awaited call: with a payload (success), or
\* with an error or an unsuccessful response; finally the loading flag is
\* cleared. Build A's prompt handlers then clear isLoadingPrompt.
AiReturns(f, success) ==
    /\ pc = "idle"
    /\ hook[f].inflight > 0
    /\ hook' = [hook EXCEPT
                  ![f].loading = FALSE,
                  ![f].inflight = @ - 1,
                  ![f].error = IF success THEN @ ELSE "failed",
                  ![f].result = IF success \/ (f = "mood-quote" /\ build = "B")
                                THEN "value" ELSE "null"]
    /\ ui' = IF build = "A" /\ f = "prompt"
             THEN [ui EXCEPT !.isLoadingPrompt = FALSE,
                             !.promptError = ~success]
             ELSE ui
    /\ last' = NoOp
    /\ UNCHANGED <<dbVars, extVars, clock, tz, build, session, status, storage, pc, passes,
                   aiCalls>>

NextApp ==
    \/ Tick
    \/ HandleGenerateNewPrompt
    \/ LoadDailyPrompt
    \/ GeneratePromptA
    \/ HandleSubmitMoodQuote
    \/ HandleMoodSelect
    \/ GenerateMoodQuoteForMood
    \/ \E f \in AppFeatures : GenerateB(f)
    \/ \E f \in AppFeatures, success \in BOOLEAN : AiReturns(f, success)

InitApp == Init /\ tz = 0 /\ session = "alice"

SpecApp == InitApp /\ [][NextApp]_vars

\* ---------------------------------------------------------- badge engine
\* The operators take the tables they read as arguments: P public.profiles,
\* E public.journal_entries, B public.user_badges, d CURRENT_DATE.

\* Variant: the rows are read without WHERE user_id = target_user_id.
EntriesOf_anyuser(u, E) == BagToSet(E)

\* ... FROM public.journal_entries WHERE user_id = target_user_id: the
\* distinct rows of the user.
EntriesOf(u, E) == {e \in BagToSet(E) : e.user_id = u}

\* EXISTS(SELECT 1 FROM public.user_badges WHERE user_id = target_user_id
\*        AND badge_id = badge_record.id)
HasBadge(u, b, B) == \E r \in B : r.user_id = u /\ r.badge_id = b

\* SELECT COUNT(*) FROM public.journal_entries WHERE user_id = target_user_id
EntryCount(u, E) ==
    LET RECURSIVE Sum(_)
        Sum(S) == IF S = {} THEN 0
                  ELSE LET x == CHOOSE x \in S : TRUE
                       IN E[x] + Sum(S \ {x})
    IN Sum(EntriesOf(u, E))

\* Variant: the target has to be exceeded.
EntryCountReached_gt(u, E, target) == EntryCount(u, E) > target

\* IF entry_count >= (badge_record.criteria->>'target')::integer
EntryCountReached(u, E, target) == EntryCount(u, E) >= target

\* DATE_TRUNC('week', CURRENT_DATE), as the first day of the week.
WeekStart(d) == (d \div DaysPerWeek) * DaysPerWeek

\* Distinct days journaled in the week of d.
WeeklyDaysCount(u, E, d) ==
    Cardinality({e.date : e \in {x \in EntriesOf(u, E) :
                    x.date >= WeekStart(d) /\ x.date < WeekStart(d) + DaysPerWeek}})

\* Variant: the status of the subscription is not looked at.
SubscriptionMatches_nostatus(badge, profile) ==
    \/ badge.tier = profile.subscription_tier
    \/ (badge.tier = "premium"
        /\ profile.subscription_tier \in {"premium", "premium_plus"})

\* The IF of the subscription case.
SubscriptionMatches(badge, profile) ==
    profile.subscription_status = "premium"
    /\ (\/ badge.tier = profile.subscription_tier
        \/ (badge.tier = "premium"
            /\ profile.subscription_tier \in {"premium", "premium_plus"}))

\* The criteria types the CASE has a WHEN for.
RecognizedTypes ==
    {"first_entry", "entry_count", "streak", "weekly_goal", "long_entry",
     "mood_diversity", "subscription"}

\* Variant: the CASE has no ELSE, and plpgsql raises case_not_found.
UnknownCriteria_raise(badge) == "raise"

\* ELSE CONTINUE: what the loop does with a criteria type no WHEN lists.
UnknownCriteria(badge) == "continue"

\* The WHENs of the CASE: whether the badge is inserted.
CriteriaMet(badge, u, profile, E, d) ==
    CASE badge.type = "first_entry" -> EntriesOf(u, E) # {}
      [] badge.type = "entry_count" -> EntryCountReached(u, E, badge.target)
      [] badge.type = "streak" -> profile.current_streak >= badge.target
      [] badge.type = "weekly_goal" ->
            WeeklyDaysCount(u, E, d) >= profile.journaling_goal_frequency
      [] badge.type = "long_entry" ->
            \E e \in EntriesOf(u, E) : e.length >= badge.target
      [] badge.type = "mood_diversity" ->
            Cardinality({e.mood : e \in EntriesOf(u, E)}) >= badge.target
      [] badge.type = "subscription" -> SubscriptionMatches(badge, profile)
      [] OTHER -> FALSE

\* INSERT INTO public.user_badges (user_id, badge_id) VALUES (...): the new
\* row takes the next id and the column default of earned_at.
InsertUserBadge(u, b, B, d) ==
    B \cup {[id |-> Cardinality(B) + 1, user_id |-> u, badge_id |-> b,
             earned_at |-> d]}

\* Whether the INSERT raises unique_violation.
UniqueViolation(u, b, B, unique) == unique /\ HasBadge(u, b, B)

\* Variant: the loop does not skip the badges the user already has.
AlreadyEarned_never(u, b, B) == FALSE

\* IF EXISTS(...) THEN CONTINUE
AlreadyEarned(u, b, B) == HasBadge(u, b, B)

\* FOR badge_record IN SELECT * FROM public.badges LOOP ... END LOOP, from
\* the i-th row on. An error raised by a statement ends the function.
RECURSIVE AwardLoop(_, _, _, _, _, _, _)
AwardLoop(i, u, profile, E, B, d, unique) ==
    IF i > Len(Catalog) THEN [ok |-> TRUE, badges |-> B]
    ELSE LET badge == Catalog[i]
         IN IF AlreadyEarned(u, badge.id, B)
            THEN AwardLoop(i + 1, u, profile, E, B, d, unique)
            ELSE IF badge.type \notin RecognizedTypes
            THEN IF UnknownCriteria(badge) = "continue"
                 THEN AwardLoop(i + 1, u, profile, E, B, d, unique)
                 ELSE [ok |-> FALSE, badges |-> B]
            ELSE IF ~CriteriaMet(badge, u, profile, E, d)
            THEN AwardLoop(i + 1, u, profile, E, B, d, unique)
            ELSE IF UniqueViolation(u, badge.id, B, unique)
            THEN [ok |-> FALSE, badges |-> B]
            ELSE AwardLoop(i + 1, u, profile, E,
                           InsertUserBadge(u, badge.id, B, d), d, unique)

\* SELECT COUNT(*) FROM public.user_badges WHERE user_id = target_user_id
BadgeCount(u, B) == Cardinality({r \in B : r.user_id = u})

\* Variant: the count has no WHERE user_id = target_user_id.
TotalBadgesEarned_anyuser(u, P, B0, B1) == Cardinality(B1)

\* UPDATE public.profiles SET total_badges_earned = (SELECT COUNT(*) ...)
TotalBadgesEarned(u, P, B0, B1) == BadgeCount(u, B1)

\* Variant: the user's badges are rebuilt from the criteria that hold now.
check_and_award_badges_rebuild(target, P, E, B, d, unique) ==
    IF target \notin DOMAIN P
    THEN [ok |-> TRUE, profiles |-> P, badges |-> B]
    ELSE LET B0 == {r \in B : r.user_id # target}
             r == AwardLoop(1, target, P[target], E, B0, d, unique)
         IN [ok |-> TRUE, badges |-> r.badges,
             profiles |-> [P EXCEPT ![target].total_badges_earned =
                             BadgeCount(target, r.badges)]]

\* check_and_award_badges(target_user_id) run to its end over the tables
\* P, E, B: the tables it leaves, and whether it returned (ok) or raised.
\* A raised error rolls back what the function wrote.
check_and_award_badges(target, P, E, B, d, unique) ==
    IF target \notin DOMAIN P
    THEN [ok |-> TRUE, profiles |-> P, badges |-> B]
    ELSE LET r == AwardLoop(1, target, P[target], E, B, d, unique)
         IN IF ~r.ok THEN [ok |-> FALSE, profiles |-> P, badges |-> B]
            ELSE [ok |-> TRUE, badges |-> r.badges,
                  profiles |-> [P EXCEPT ![target].total_badges_earned =
                                  TotalBadgesEarned(target, P, B, r.badges)]]

\* Variant: no trigger is attached to the update.
check_badges_on_subscription_update_none(u, P, E, B, d, unique) ==
    [ok |-> TRUE, profiles |-> P, badges |-> B]

\* The trigger check_badges_on_subscription_update on the row NEW of user u:
\* PERFORM public.check_and_award_badges(NEW.user_id).
check_badges_on_subscription_update(u, P, E, B, d, unique) ==
    check_and_award_badges(u, P, E, B, d, unique)

\* -------------------------------------------------------------- streaks
Max(a, b) == IF a >= b THEN a ELSE b

\* Variant: a second entry on the same day extends the streak too.
StreakOnInsert_sameday(profile, D) ==
    LET cs == IF profile.last_entry_date = NoDate THEN 1
              ELSE IF D <= profile.last_entry_date + 1
              THEN profile.current_streak + 1
              ELSE 1
    IN [profile EXCEPT !.current_streak = cs,
                       !.best_streak = Max(@, cs),
                       !.last_entry_date = D]

\* Variant: an entry of a later day always extends the streak.
StreakOnInsert_nogap(profile, D) ==
    LET cs == IF profile.last_entry_date = NoDate THEN 1
              ELSE IF D = profile.last_entry_date THEN profile.current_streak
              ELSE profile.current_streak + 1
    IN [profile EXCEPT !.current_streak = cs,
                       !.best_streak = Max(@, cs),
                       !.last_entry_date = D]

\* The streak fields of a profile after an entry dated D is inserted.
StreakOnInsert(profile, D) ==
    LET cs == IF profile.last_entry_date = NoDate THEN 1
              ELSE IF D = profile.last_entry_date THEN profile.current_streak
              ELSE IF D = profile.last_entry_date + 1
              THEN profile.current_streak + 1
              ELSE 1
    IN [profile EXCEPT !.current_streak = cs,
                       !.best_streak = Max(@, cs),
                       !.last_entry_date = D]

\* The run of consecutive days with an entry that ends at day D.
RECURSIVE TrailingRun(_, _)
TrailingRun(D, dates) ==
    IF D \notin dates THEN 0 ELSE 1 + TrailingRun(D - 1, dates)

\* The most recent of a non-empty set of dates.
LastDate(dates) == CHOOSE D \in dates : \A x \in dates : x <= D

\* Variant: the rebuild sets best_streak to the rebuilt run as well.
StreakRebuild_best(profile, dates) ==
    IF dates = {}
    THEN [profile EXCEPT !.current_streak = 0, !.best_streak = 0,
                         !.last_entry_date = NoDate]
    ELSE [profile EXCEPT
            !.current_streak = TrailingRun(LastDate(dates), dates),
            !.best_streak = TrailingRun(LastDate(dates), dates),
            !.last_entry_date = LastDate(dates)]

\* The streak fields rebuilt from the dates of the remaining entries.
StreakRebuild(profile, dates) ==
    IF dates = {}
    THEN [profile EXCEPT !.current_streak = 0, !.last_entry_date = NoDate]
    ELSE [profile EXCEPT
            !.current_streak = TrailingRun(LastDate(dates), dates),
            !.best_streak = Max(@, TrailingRun(LastDate(dates), dates)),
            !.last_entry_date = LastDate(dates)]

\* Variant: the fields are rebuilt only when the entry was of the most
\* recent day.
StreakOnDelete_lastonly(profile, D, dates) ==
    IF D = profile.last_entry_date THEN StreakRebuild(profile, dates)
    ELSE profile

\* The streak fields after an entry dated D is deleted: rebuilt from the
\* distinct dates of the remaining entries.
StreakOnDelete(profile, D, dates) == StreakRebuild(profile, dates)

\* ----------------------------------------------------- database operations
\* No check_and_award_badges call is under way statement by statement.
DbQuiet == \A s \in Sessions : txn[s].pc = "idle"

\* A client may write while the budget of the model lasts.
MayWrite == DbQuiet /\ writes < MaxWrites

\* The evaluation completed for user u over the entries E is noted.
NoteEvaluation(u, E, ok) ==
    IF ok /\ u \in Users
    THEN [evalSeen EXCEPT ![u] = Max(@, EntryCount(u, E))]
    ELSE evalSeen

\* The server's date advances, up to lastDate.
DayPasses(lastDate) ==
    /\ date < lastDate
    /\ date' = date + 1
    /\ UNCHANGED <<gateVars, extVars, uniqueIndex, profiles, journal_entries,
                   user_badges, txn, evalSeen, writes>>

\* The date advances while no database session is at work.
NextDay(lastDate) == DbQuiet /\ DayPasses(lastDate)

\* select check_and_award_badges(target) called on its own.
CheckAndAwardBadges(target) ==
    /\ DbQuiet
    /\ LET r == check_and_award_badges(target, profiles, journal_entries,
                                       user_badges, date, uniqueIndex)
       IN /\ profiles' = r.profiles
          /\ user_badges' = r.badges
          /\ evalSeen' = NoteEvaluation(target, journal_entries, r.ok)
    /\ UNCHANGED <<gateVars, extVars, date, uniqueIndex, journal_entries, txn, writes>>

\* UPDATE public.profiles SET subscription_status = s, subscription_tier = t
\* WHERE user_id = u, and the AFTER UPDATE trigger
\* check_badges_on_subscription_update, which fires when either column
\* changed. An error raised in the trigger rolls the update back.
UpdateSubscription(u, s, t) ==
    /\ MayWrite
    /\ <<s, t>> # <<profiles[u].subscription_status,
                    profiles[u].subscription_tier>>
    /\ LET P1 == [profiles EXCEPT ![u].subscription_status = s,
                                  ![u].subscription_tier = t]
           r == check_badges_on_subscription_update(
                    u, P1, journal_entries, user_badges, date, uniqueIndex)
       IN /\ profiles' = IF r.ok THEN r.profiles ELSE profiles
          /\ user_badges' = r.badges
          /\ evalSeen' = NoteEvaluation(u, journal_entries, r.ok)
    /\ writes' = writes + 1
    /\ UNCHANGED <<gateVars, extVars, date, uniqueIndex, journal_entries, txn>>

\* useJournal.updateJournalingGoal: the update of the profile; no badge
\* evaluation is attached to it.
UpdateJournalingGoal(u, frequency) ==
    /\ MayWrite
    /\ frequency # profiles[u].journaling_goal_frequency
    /\ profiles' = [profiles EXCEPT ![u].journaling_goal_frequency = frequency]
    /\ writes' = writes + 1
    /\ UNCHANGED <<gateVars, extVars, date, uniqueIndex, journal_entries, user_badges,
                   txn, evalSeen>>

\* useJournal.addEntry: the insert of the entry, dated by the server, and
\* what the database does on it: the streak fields are updated and the
\* badges evaluated.
InsertEntryWithin(u, mood, length, maxEntries) ==
    /\ DbQuiet
    /\ BagCardinality(journal_entries) < maxEntries
    /\ LET E1 == journal_entries (+)
                   SetToBag({[user_id |-> u, date |-> date,
                              mood |-> mood, length |-> length]})
           P1 == [profiles EXCEPT ![u] = StreakOnInsert(@, date)]
           r == check_and_award_badges(u, P1, E1, user_badges, date,
                                       uniqueIndex)
       IN /\ journal_entries' = IF r.ok THEN E1 ELSE journal_entries
          /\ profiles' = IF r.ok THEN r.profiles ELSE profiles
          /\ user_badges' = r.badges
          /\ evalSeen' = NoteEvaluation(u, E1, r.ok)
    /\ writes' = writes + 1
    /\ UNCHANGED <<gateVars, extVars, date, uniqueIndex, txn>>

\* useJournal.addEntry within the budget of writes of the model.
InsertEntry(u, mood, length) ==
    /\ MayWrite
    /\ InsertEntryWithin(u, mood, length, MaxEntries)

\* useJournal.deleteEntry: the delete of the entry and what the database
\* does on it: the streak fields are rebuilt and the badges evaluated.
DeleteEntryWithin(e, maxWrites) ==
    /\ DbQuiet
    /\ writes < maxWrites
    /\ BagIn(e, journal_entries)
    /\ LET u == e.user_id
           E1 == journal_entries (-) SetToBag({e})
           P1 == [profiles EXCEPT ![u] =
                    StreakOnDelete(@, e.date,
                                   {x.date : x \in EntriesOf(u, E1)})]
           r == check_and_award_badges(u, P1, E1, user_badges, date,
                                       uniqueIndex)
       IN /\ journal_entries' = IF r.ok THEN E1 ELSE journal_entries
          /\ profiles' = IF r.ok THEN r.profiles ELSE profiles
          /\ user_badges' = r.badges
          /\ evalSeen' = NoteEvaluation(u, E1, r.ok)
    /\ writes' = writes + 1
    /\ UNCHANGED <<gateVars, extVars, date, uniqueIndex, txn>>

\* useJournal.deleteEntry within the budget of writes of the model.
DeleteEntry(e) == DeleteEntryWithin(e, MaxWrites)

\* The stages of one subscription: none, active, cancelled with the tier
\* kept.
SubscriptionStages ==
    {<<"free", "free">>, <<"premium", "premium">>, <<"cancelled", "premium">>}

NextBadge ==
    \/ NextDay(MaxDate)
    \/ \E target \in TargetIds : CheckAndAwardBadges(target)
    \/ \E u \in Users, plan \in SubscriptionStages :
          UpdateSubscription(u, plan[1], plan[2])
    \/ \E u \in Users, frequency \in 1..MaxGoal :
          UpdateJournalingGoal(u, frequency)
    \/ \E u \in Users, k \in EntryKinds : InsertEntry(u, k[1], k[2])
    \/ \E e \in BagToSet(journal_entries) : DeleteEntry(e)

\* The gate's state plays no part in the database; the schema of
\* user_badges is taken with and without the unique index.
InitBadge ==
    /\ InitGate /\ tz = 0 /\ build = "B" /\ session = "alice"
    /\ status = "free"
    /\ InitDb
    /\ uniqueIndex \in BOOLEAN
    /\ InitExt

SpecBadge == InitBadge /\ [][NextBadge]_vars

\* The subscription columns take every pair of values their CHECK
\* constraints allow; the first entry of a user may be written too.
NextSubscription ==
    \/ \E target \in TargetIds : CheckAndAwardBadges(target)
    \/ \E u \in Users, s \in Statuses, t \in Tiers : UpdateSubscription(u, s, t)
    \/ \E u \in Users : InsertEntry(u, "good", 1)

SpecSubscription == InitBadge /\ [][NextSubscription]_vars

\* Entries are added, day after day or on the same day, and nothing else
\* is written.
NextStreak ==
    \/ NextDay(MaxStreakDate)
    \/ \E u \in Users : InsertEntryWithin(u, "good", 1, MaxStreakEntries)

SpecStreak == InitBadge /\ [][NextStreak]_vars

\* Entries are added and deleted.
NextStreakDelete ==
    \/ NextDay(MaxStreakDate)
    \/ \E u \in Users : InsertEntryWithin(u, "good", 1, MaxStreakEntries)
    \/ \E e \in BagToSet(journal_entries) :
          DeleteEntryWithin(e, MaxStreakWrites)

SpecStreakDelete == InitBadge /\ [][NextStreakDelete]_vars

\* ----------------------------------------------------------- useJournal
\* The hook on the device of the signed-in user, over the database above.
\* A content is the sequence of its characters.
Contents == {<<>>, <<" ">>, <<" ", "a", " ">>}

\* content.trim()
RECURSIVE TrimStart(_)
TrimStart(c) ==
    IF c # <<>> /\ Head(c) = " " THEN TrimStart(Tail(c)) ELSE c
RECURSIVE TrimEnd(_)
TrimEnd(c) ==
    IF c # <<>> /\ c[Len(c)] = " " THEN TrimEnd(SubSeq(c, 1, Len(c) - 1))
    ELSE c
Trim(c) == TrimEnd(TrimStart(c))

\* The values passed as mood: one of the MoodLevels and one that is none.
MoodInputs == {4, 9}

\* getMoodString: the switch with its default.
getMoodString(mood) ==
    CASE mood = 1 -> "struggling"
      [] mood = 2 -> "low"
      [] mood = 3 -> "neutral"
      [] mood = 4 -> "good"
      [] mood = 5 -> "amazing"
      [] OTHER -> "neutral"

\* if (frequency < 1 || frequency > 7)
MinFrequency == 1
MaxFrequency == 7
FrequencyInputs == {MinFrequency - 1, MaxGoal, MaxFrequency + 1}

\* What the calls of the hook return.
Success(op) == [op |-> op, success |-> TRUE, error |-> "none"]
Failure(op, message) == [op |-> op, success |-> FALSE, error |-> message]

\* get_user_badge_progress(target_user_id): the badges of the catalog the
\* user has earned.
EarnedBadges(u, B) == {b \in BadgeIds : HasBadge(u, b, B)}

\* The first of a set of badges in the order of the list.
FirstBadge(ids) ==
    Catalog[CHOOSE i \in 1..Len(Catalog) :
               /\ Catalog[i].id \in ids
               /\ \A k \in 1..(i - 1) : Catalog[k].id \notin ids].id

\* The two effects of AuthenticatedApp on [badges, previousBadges], run
\* after a render with the previousBadges of that render: the first sets
\* previousBadges when it is empty, the second shows a toast for the first
\* badge earned and not in previousBadges. A render that follows finds
\* nothing new.
BadgeEffects(j) ==
    IF ~j.loaded THEN j
    ELSE IF j.previousBadges = {}
    THEN [j EXCEPT !.previousBadges = j.badges]
    ELSE IF j.badges \ j.previousBadges # {}
    THEN [j EXCEPT !.toasts = Append(@, FirstBadge(j.badges \ j.previousBadges)),
                   !.previousBadges = j.badges]
    ELSE j

\* setBadges(badgeData) and the render that follows.
SetBadges(j, earned) ==
    BadgeEffects([j EXCEPT !.loaded = TRUE, !.badges = earned,
                           !.firstLoad = IF j.loaded THEN @ ELSE earned])

\* loadUserBadges over the table B: an error of the rpc is logged, and the
\* list stays as it is.
LoadUserBadgesOver(j, u, B, ok) ==
    IF ok THEN SetBadges(j, EarnedBadges(u, B)) ELSE j

\* .from('journal_entries').select('*').eq('user_id', user.id)
UserEntries(u, E) == [e \in {x \in DOMAIN E : x.user_id = u} |-> E[e]]

\* No handler of the device and no database session is under way.
HookIdle == DbQuiet /\ pc = "idle"

\* useJournal.loadUserBadges; its promise resolves without a value, also
\* after an error, which is logged only.
loadUserBadges(ok) ==
    /\ HookIdle
    /\ journal' = LoadUserBadgesOver(
                      [journal EXCEPT !.result = Success("loadUserBadges")],
                      session, user_badges, ok)
    /\ UNCHANGED <<gateVars, dbVars, sideVars>>

\* useJournal.loadUserData: the profile, then the entries; an error of
\* either query ends the load.
loadUserData(profileOk, entriesOk) ==
    /\ HookIdle
    /\ journal' =
          IF ~profileOk
          THEN [journal EXCEPT !.result = Success("loadUserData")]
          ELSE IF ~entriesOk
          THEN [journal EXCEPT !.hasProfile = TRUE,
                               !.profile = profiles[session],
                               !.result = Success("loadUserData")]
          ELSE [journal EXCEPT
                  !.hasProfile = TRUE,
                  !.profile = profiles[session],
                  !.entries = UserEntries(session, journal_entries),
                  !.result = Success("loadUserData")]
    /\ UNCHANGED <<gateVars, dbVars, sideVars>>

\* Variant: an error of the profile reload fails the call.
AfterInsert_propagate(j, row, profile, B, profileOk, badgesOk) ==
    IF ~profileOk
    THEN [j EXCEPT !.result =
            Failure("addEntry", "Failed to load the updated profile")]
    ELSE LoadUserBadgesOver(
            [j EXCEPT !.hasProfile = TRUE,
                      !.profile = profile,
                      !.entries = @ (+) SetToBag({row}),
                      !.result = Success("addEntry")],
            row.user_id, B, badgesOk)

\* addEntry after the insert of row succeeded: the reload of the profile;
\* on its error the entry is added to the local list and the call returns;
\* otherwise setProfile, setEntries and loadUserBadges, whose error is
\* logged only.
AfterInsert(j, row, profile, B, profileOk, badgesOk) ==
    IF ~profileOk
    THEN [j EXCEPT !.entries = @ (+) SetToBag({row}),
                   !.result = Success("addEntry")]
    ELSE LoadUserBadgesOver(
            [j EXCEPT !.hasProfile = TRUE,
                      !.profile = profile,
                      !.entries = @ (+) SetToBag({row}),
                      !.result = Success("addEntry")],
            row.user_id, B, badgesOk)

\* useJournal.addEntry(content, mood): validation, the insert of the row
\* (and what the database does on it), the reload of the profile, the
\* reload of the badges.
addEntry(content, mood, insertOk, profileOk, badgesOk) ==
    /\ HookIdle
    /\ MayWrite
    /\ BagCardinality(journal_entries) < MaxEntries
    /\ LET u == session
           row == [user_id |-> u, date |-> date,
                   mood |-> getMoodString(mood),
                   length |-> Len(Trim(content))]
           E1 == journal_entries (+) SetToBag({row})
           P1 == [profiles EXCEPT ![u] = StreakOnInsert(@, date)]
           r == check_and_award_badges(u, P1, E1, user_badges, date,
                                       uniqueIndex)
       IN IF Trim(content) = <<>>
          THEN /\ journal' = [journal EXCEPT !.result =
                    Failure("addEntry", "Entry content cannot be empty")]
               /\ UNCHANGED dbVars
          ELSE IF ~insertOk \/ ~r.ok
          THEN /\ journal' = [journal EXCEPT !.result =
                    Failure("addEntry", "Failed to save your journal entry")]
               /\ UNCHANGED dbVars
          ELSE /\ journal_entries' = E1
               /\ profiles' = r.profiles
               /\ user_badges' = r.badges
               /\ evalSeen' = NoteEvaluation(u, E1, TRUE)
               /\ writes' = writes + 1
               /\ journal' = AfterInsert(journal, row, r.profiles[u], r.badges,
                                         profileOk, badgesOk)
               /\ UNCHANGED <<date, uniqueIndex, txn>>
    /\ UNCHANGED <<gateVars, sideVars>>

\* useJournal.updateEntry(entryId, content, mood): validation, the update
\* of the row, the update of the local row.
updateEntry(e, content, mood, updateOk) ==
    /\ HookIdle
    /\ MayWrite
    /\ BagIn(e, journal_entries) /\ e.user_id = session
    /\ LET row == [e EXCEPT !.mood = getMoodString(mood),
                            !.length = Len(Trim(content))]
       IN IF Trim(content) = <<>>
          THEN /\ journal' = [journal EXCEPT !.result =
                    Failure("updateEntry", "Entry content cannot be empty")]
               /\ UNCHANGED dbVars
          ELSE IF ~updateOk
          THEN /\ journal' = [journal EXCEPT !.result =
                    Failure("updateEntry",
                            "Failed to update your journal entry")]
               /\ UNCHANGED dbVars
          ELSE /\ journal_entries' =
                    (journal_entries (-) SetToBag({e})) (+) SetToBag({row})
               /\ writes' = writes + 1
               /\ journal' = [journal EXCEPT
                    !.entries = IF BagIn(e, @)
                                THEN (@ (-) SetToBag({e})) (+) SetToBag({row})
                                ELSE @,
                    !.result = Success("updateEntry")]
               /\ UNCHANGED <<date, uniqueIndex, profiles, user_badges, txn,
                              evalSeen>>
    /\ UNCHANGED <<gateVars, sideVars>>

\* useJournal.updateJournalingGoal(frequency): validation, the update of
\* the profile, the local profile, the reload of the badges.
updateJournalingGoal(frequency, updateOk, badgesOk) ==
    /\ HookIdle
    /\ MayWrite
    /\ IF frequency < MinFrequency \/ frequency > MaxFrequency
       THEN /\ journal' = [journal EXCEPT !.result =
                 Failure("updateJournalingGoal",
                         "Goal frequency must be between 1 and 7")]
            /\ UNCHANGED dbVars
       ELSE IF ~updateOk
       THEN /\ journal' = [journal EXCEPT !.result =
                 Failure("updateJournalingGoal",
                         "Failed to update your journaling goal")]
            /\ UNCHANGED dbVars
       ELSE /\ profiles' = [profiles EXCEPT
                 ![session].journaling_goal_frequency = frequency]
            /\ writes' = writes + 1
            /\ journal' = LoadUserBadgesOver(
                 [journal EXCEPT
                    !.profile = IF journal.hasProfile
                                THEN [@ EXCEPT
                                        !.journaling_goal_frequency = frequency]
                                ELSE @,
                    !.result = Success("updateJournalingGoal")],
                 session, user_badges, badgesOk)
            /\ UNCHANGED <<date, uniqueIndex, journal_entries, user_badges,
                           txn, evalSeen>>
    /\ UNCHANGED <<gateVars, sideVars>>

NextJournal ==
    \/ NextDay(MaxDate)
    \/ \E profileOk, entriesOk \in BOOLEAN : loadUserData(profileOk, entriesOk)
    \/ \E ok \in BOOLEAN : loadUserBadges(ok)
    \/ \E content \in Contents, mood \in MoodInputs,
          insertOk, profileOk, badgesOk \in BOOLEAN :
          addEntry(content, mood, insertOk, profileOk, badgesOk)
    \/ \E e \in BagToSet(journal_entries), content \in Contents,
          mood \in MoodInputs, updateOk \in BOOLEAN :
          updateEntry(e, content, mood, updateOk)
    \/ \E frequency \in FrequencyInputs, updateOk, badgesOk \in BOOLEAN :
          updateJournalingGoal(frequency, updateOk, badgesOk)

InitJournalSpec == InitBadge /\ uniqueIndex = TRUE

SpecJournal == InitJournalSpec /\ [][NextJournal]_vars

\* ------------------------------------------------ concurrent inserts
\* Two devices of a user add entries at the same time: each session
\* persists its entry, dated by the server, and recomputes the streak
\* afterwards; the steps of the two sessions interleave, and midnight may
\* pass in between.

\* The entry of the session is persisted; its recompute is still to come.
PersistEntry(s, u) ==
    /\ txn[s].pc = "idle"
    /\ BagCardinality(journal_entries) < MaxStreakEntries
    /\ journal_entries' = journal_entries (+)
          SetToBag({[user_id |-> u, date |-> date, mood |-> "good",
                     length |-> 1]})
    /\ txn' = [txn EXCEPT ![s] =
                 [IdleTxn EXCEPT !.pc = "persisted", !.target = u,
                                 !.i = date]]
    /\ writes' = writes + 1
    /\ UNCHANGED <<gateVars, extVars, date, uniqueIndex, profiles, user_badges,
                   evalSeen>>

\* The streak fields are recomputed for the entry the session persisted,
\* and the badges evaluated.
RecomputeStreak(s) ==
    /\ txn[s].pc = "persisted"
    /\ LET u == txn[s].target
           P1 == [profiles EXCEPT ![u] = StreakOnInsert(@, txn[s].i)]
           r == check_and_award_badges(u, P1, journal_entries, user_badges,
                                       date, uniqueIndex)
       IN /\ profiles' = IF r.ok THEN r.profiles ELSE P1
          /\ user_badges' = r.badges
          /\ evalSeen' = NoteEvaluation(u, journal_entries, r.ok)
    /\ txn' = [txn EXCEPT ![s] = IdleTxn]
    /\ UNCHANGED <<gateVars, extVars, date, uniqueIndex, journal_entries, writes>>

NextStreakRace ==
    \/ DayPasses(MaxStreakDate)
    \/ \E s \in Sessions, u \in Users : PersistEntry(s, u)
    \/ \E s \in Sessions : RecomputeStreak(s)

SpecStreakRace == InitBadge /\ [][NextStreakRace]_vars

\* ------------------------------------------- concurrent evaluations
\* check_and_award_badges executed statement by statement by two database
\* sessions under READ COMMITTED: a statement sees the rows committed
\* before it started and the rows its own transaction wrote.

\* The user_badges rows session s sees: the committed ones and its own.
VisibleBadges(s) ==
    user_badges \cup
        {[id |-> 0, user_id |-> txn[s].target, badge_id |-> b,
          earned_at |-> date] : b \in txn[s].inserted}

\* Another transaction holds an uncommitted row for the same (user, badge):
\* with a unique index the INSERT waits for that transaction to end.
InsertWaits(s, b) ==
    /\ uniqueIndex
    /\ \E o \in Sessions \ {s} :
          /\ txn[o].pc \in {"loop", "insert"}
          /\ txn[o].target = txn[s].target
          /\ b \in txn[o].inserted

\* The committed table with the rows of a set of badge ids added one by one.
RECURSIVE CommitRows(_, _, _, _)
CommitRows(u, ids, B, d) ==
    IF ids = {} THEN B
    ELSE LET b == CHOOSE x \in ids : TRUE
         IN CommitRows(u, ids \ {b}, InsertUserBadge(u, b, B, d), d)

\* A session calls check_and_award_badges(target): SELECT * INTO
\* user_profile; without a profile the function returns.
BeginEvaluation(s, target) ==
    /\ txn[s].pc = "idle"
    /\ txn' = [txn EXCEPT ![s] =
                 IF target \notin DOMAIN profiles
                 THEN [IdleTxn EXCEPT !.pc = "done", !.target = target]
                 ELSE [pc |-> "loop", target |-> target, i |-> 1,
                       inserted |-> {}, profile |-> profiles[target]]]
    /\ UNCHANGED <<gateVars, extVars, date, uniqueIndex, profiles, journal_entries,
                   user_badges, evalSeen, writes>>

\* The loop reads the next row of badges: the EXISTS check, then the CASE up
\* to the INSERT it decides on.
LoopStep(s) ==
    /\ txn[s].pc = "loop"
    /\ txn[s].i <= Len(Catalog)
    /\ LET badge == Catalog[txn[s].i]
           u == txn[s].target
       IN txn' = [txn EXCEPT ![s] =
            IF AlreadyEarned(u, badge.id, VisibleBadges(s))
            THEN [@ EXCEPT !.i = @ + 1]
            ELSE IF badge.type \notin RecognizedTypes
            THEN IF UnknownCriteria(badge) = "continue"
                 THEN [@ EXCEPT !.i = @ + 1]
                 ELSE [@ EXCEPT !.pc = "failed", !.inserted = {}]
            ELSE IF ~CriteriaMet(badge, u, txn[s].profile, journal_entries,
                                 date)
            THEN [@ EXCEPT !.i = @ + 1]
            ELSE [@ EXCEPT !.pc = "insert"]]
    /\ UNCHANGED <<gateVars, extVars, date, uniqueIndex, profiles, journal_entries,
                   user_badges, evalSeen, writes>>

\* The INSERT the CASE decided on. With a unique index it raises
\* unique_violation when a committed row of the pair exists; the function
\* has no handler, the error ends it and its transaction is rolled back.
InsertStep(s) ==
    /\ txn[s].pc = "insert"
    /\ LET b == Catalog[txn[s].i].id
           u == txn[s].target
       IN /\ ~InsertWaits(s, b)
          /\ txn' = [txn EXCEPT ![s] =
                IF UniqueViolation(u, b, VisibleBadges(s), uniqueIndex)
                THEN [@ EXCEPT !.pc = "failed", !.inserted = {}]
                ELSE [@ EXCEPT !.pc = "loop", !.i = @ + 1,
                               !.inserted = @ \cup {b}]]
    /\ UNCHANGED <<gateVars, extVars, date, uniqueIndex, profiles, journal_entries,
                   user_badges, evalSeen, writes>>

\* After the loop: UPDATE public.profiles SET total_badges_earned = ...,
\* the function returns and its transaction commits.
CommitEvaluation(s) ==
    /\ txn[s].pc = "loop"
    /\ txn[s].i > Len(Catalog)
    /\ LET u == txn[s].target
           B1 == CommitRows(u, txn[s].inserted, user_badges, date)
       IN /\ user_badges' = B1
          /\ profiles' = [profiles EXCEPT ![u].total_badges_earned =
                             TotalBadgesEarned(u, profiles, user_badges, B1)]
          /\ evalSeen' = NoteEvaluation(u, journal_entries, TRUE)
    /\ txn' = [txn EXCEPT ![s] = [@ EXCEPT !.pc = "done", !.inserted = {}]]
    /\ UNCHANGED <<gateVars, extVars, date, uniqueIndex, journal_entries, writes>>

\* The writes that set the race up happen while no evaluation is under way.
NextRace ==
    \/ \E u \in Users, k \in EntryKinds : InsertEntry(u, k[1], k[2])
    \/ \E u \in Users, frequency \in 1..MaxGoal :
          UpdateJournalingGoal(u, frequency)
    \/ \E s \in Sessions, target \in TargetIds : BeginEvaluation(s, target)
    \/ \E s \in Sessions : LoopStep(s)
    \/ \E s \in Sessions : InsertStep(s)
    \/ \E s \in Sessions : CommitEvaluation(s)

SpecRace == InitBadge /\ [][NextRace]_vars

\* ------------------------------------------------ debounced mood analysis
\* if (!journalEntry.trim() || journalEntry.length < 20)
MinAnalysisLength == 20
\* Most analyzeMood calls started in one behaviour.
MaxAnalyses == 4

\* The texts typed: empty, blanks only, too short, and two long enough.
EntryTexts ==
    {EmptyText,
     [length |-> MinAnalysisLength, blank |-> TRUE],
     [length |-> MinAnalysisLength - 1, blank |-> FALSE],
     [length |-> MinAnalysisLength, blank |-> FALSE],
     [length |-> MinAnalysisLength + 1, blank |-> FALSE]}
\* The moods picked by hand and the moods the analysis returns.
SelectableMoods == {3, 4}

\* The effect's early return does not apply to the text.
Analyzable(text) == ~(text.blank \/ text.length < MinAnalysisLength)

\* The effect on [journalEntry, selectedMood, analyzeMood] runs: its
\* cleanup clears the timer of the run before; a text that is not
\* analyzable clears the suggestion, an analyzable one starts the 2 s
\* timer.
AnalysisEffect(a) ==
    IF Analyzable(a.entry)
    THEN [a EXCEPT !.timer = TRUE]
    ELSE [a EXCEPT !.timer = FALSE, !.aiDetectedMood = NoMood]

TotalStarted ==
    LET RECURSIVE Sum(_)
        Sum(d) == IF d < 0 THEN 0 ELSE analysis.started[d] + Sum(d - 1)
    IN Sum(MaxDay)

\* The user edits the entry.
SetJournalEntry(text) ==
    /\ pc = "idle"
    /\ text # analysis.entry
    /\ analysis' = AnalysisEffect([analysis EXCEPT !.entry = text])
    /\ UNCHANGED <<gateVars, dbVars, journal, billing>>

\* The user picks a mood.
SetSelectedMood(mood) ==
    /\ pc = "idle"
    /\ mood # analysis.selectedMood
    /\ analysis' = AnalysisEffect([analysis EXCEPT !.selectedMood = mood])
    /\ UNCHANGED <<gateVars, dbVars, journal, billing>>

\* The component renders after some other state change: analyzeMood is a
\* new function on every render, so the effect runs again.
Render ==
    /\ pc = "idle"
    /\ analysis' = AnalysisEffect(analysis)
    /\ UNCHANGED <<gateVars, dbVars, journal, billing>>

\* The timer fires, 2 s after the effect ran: the limit check, then the
\* call of analyzeMood, awaited with the selectedMood of the effect's render.
TimerFires ==
    /\ build = "A"
    /\ pc = "idle"
    /\ analysis.timer
    /\ TotalStarted < MaxAnalyses
    /\ BagCardinality(analysis.inflight) < MaxInFlight
    /\ analysis' =
          IF ~isPremium /\ hasReachedDailyLimit("mood-analysis")
          THEN [analysis EXCEPT !.timer = FALSE]
          ELSE [analysis EXCEPT
                  !.timer = FALSE,
                  !.inflight = @ (+) SetToBag({analysis.selectedMood}),
                  !.started[today] = IF isPremium THEN @ ELSE @ + 1]
    /\ UNCHANGED <<gateVars, dbVars, journal, billing>>

\* An awaited analyzeMood call, started with selectedMood = selected,
\* returns detected (NoMood: null); a mood that differs from the selected
\* one is suggested and counted.
AnalyzeMoodReturns(selected, detected) ==
    /\ build = "A"
    /\ pc = "idle"
    /\ BagIn(selected, analysis.inflight)
    /\ LET suggest == detected # NoMood /\ detected # selected
       IN /\ analysis' = [analysis EXCEPT
                            !.inflight = @ (-) SetToBag({selected}),
                            !.aiDetectedMood = IF suggest THEN detected ELSE @]
          /\ storage' = IF suggest /\ ~isPremium
                        THEN incrementUsageCounter("mood-analysis")
                        ELSE storage
          /\ last' = NoOp
    /\ UNCHANGED <<dbVars, journal, billing, clock, tz, build, session, status,
                   pc, passes, appVars>>

NextAnalysis ==
    \/ Tick
    \/ \E text \in EntryTexts : SetJournalEntry(text)
    \/ \E mood \in SelectableMoods : SetSelectedMood(mood)
    \/ Render
    \/ TimerFires
    \/ \E selected \in SelectableMoods \cup {NoMood},
          detected \in SelectableMoods \cup {NoMood} :
          AnalyzeMoodReturns(selected, detected)

InitAnalysisSpec == Init /\ tz = 0 /\ session = "alice" /\ build = "A"

SpecAnalysis == InitAnalysisSpec /\ [][NextAnalysis]_vars

\* ------------------------------------------------ create-checkout-session
\* Most customers created at the payment provider in one behaviour.
MaxCustomers == 2
\* The status of the responses.
BadRequest == 400
ServerError == 500
Ok == 200

\* The function's request handler between two awaits. A request is at
\* "lookedUp" once the select of the profile has answered, at "created"
\* once stripe.customers.create has answered, at "session" when it is
\* about to create the checkout session, and "idle" again once it has
\* responded; status keeps the status of its last response.
SetReq(r, value) == [billing EXCEPT !.req[r] = value]

Respond(r, code) == [billing.req[r] EXCEPT !.pc = "idle", !.status = code]

\* The request is received: the input is validated and the profile's
\* revenuecat_user_id is selected. A profile error other than 'no rows'
\* is thrown and answered with 500.
LookupCustomer(r, u, inputOk, profileOk) ==
    /\ billing.req[r].pc = "idle"
    /\ billing' =
          IF ~inputOk THEN SetReq(r, Respond(r, BadRequest))
          ELSE IF ~profileOk THEN SetReq(r, Respond(r, ServerError))
          ELSE SetReq(r, [pc |-> IF billing.revenuecat_user_id[u] # NoCustomer
                                 THEN "session" ELSE "lookedUp",
                          userId |-> u,
                          customerId |-> billing.revenuecat_user_id[u],
                          status |-> 0])
    /\ UNCHANGED <<gateVars, dbVars, journal, analysis>>

\* if (!customerId): stripe.customers.create; a failure is thrown and
\* answered with 500.
CreateCustomer(r, createOk) ==
    /\ billing.req[r].pc = "lookedUp"
    /\ Cardinality(billing.customers) < MaxCustomers
    /\ LET id == Cardinality(billing.customers) + 1
       IN billing' =
             IF ~createOk THEN SetReq(r, Respond(r, ServerError))
             ELSE [billing EXCEPT
                     !.customers = @ \cup
                         {[id |-> id, userId |-> billing.req[r].userId]},
                     !.req[r] = [@ EXCEPT !.pc = "created",
                                          !.customerId = id]]
    /\ UNCHANGED <<gateVars, dbVars, journal, analysis>>

\* The update of the profile with the new customer id; its error is
\* logged and the request goes on.
SaveCustomerId(r, updateOk) ==
    /\ billing.req[r].pc = "created"
    /\ billing' =
          [billing EXCEPT
             !.revenuecat_user_id[billing.req[r].userId] =
                 IF updateOk THEN billing.req[r].customerId ELSE @,
             !.req[r] = [@ EXCEPT !.pc = "session"]]
    /\ UNCHANGED <<gateVars, dbVars, journal, analysis>>

\* stripe.checkout.sessions.create for the customer, and the response.
CreateCheckoutSession(r, sessionOk) ==
    /\ billing.req[r].pc = "session"
    /\ billing' =
          IF ~sessionOk THEN SetReq(r, Respond(r, ServerError))
          ELSE [billing EXCEPT
                  !.checkouts = @ \cup {billing.req[r].customerId},
                  !.req[r] = Respond(r, Ok)]
    /\ UNCHANGED <<gateVars, dbVars, journal, analysis>>

NextCheckout ==
    \/ \E r \in Requests, u \in Users, inputOk, profileOk \in BOOLEAN :
          LookupCustomer(r, u, inputOk, profileOk)
    \/ \E r \in Requests, createOk \in BOOLEAN : CreateCustomer(r, createOk)
    \/ \E r \in Requests, updateOk \in BOOLEAN : SaveCustomerId(r, updateOk)
    \/ \E r \in Requests, sessionOk \in BOOLEAN :
          CreateCheckoutSession(r, sessionOk)

SpecCheckout == InitBadge /\ [][NextCheckout]_vars

\* ---------------------------------------------------------------- claims
\* The operations that consult the gate.
GateOps == {"hasReachedDailyLimit", "trackFeatureUsage"}

\* The key of the counter of feature f for day d in the running build.
CounterKey(f, d) == IF build = "A" THEN UsageKey(f, d) ELSE FeatureKey(f, d)

\* The count stored for feature f and day d (0 when there is no counter).
StoredCount(f, d) == ParseInt(GetItemOrZero(CounterKey(f, d)))

\* The daily limit of feature f in the running build.
LimitOf(f) == IF build = "A" THEN getDailyUsageLimit(f) ELSE DefaultLimit

Days == 0..MaxDay

\* C1: for a free user and a feature of daily limit L (2 for the recognized
\* keys), starting from no counter: a check passes exactly while fewer than L
\* checks have passed today, a later check is denied, remainingUses is then
\* 0, and after every check/record pair the stored count is at most L and
\* equals the number of checks that passed.
C1_DailyLimitEnforced ==
    /\ \A f \in RecognizedKeys : LimitOf(f) = 2
    /\ \A f \in AllKeys, d \in Days :
          /\ passes[<<f, d>>] <= LimitOf(f)
          /\ pc = "idle" => StoredCount(f, d) = Num(passes[<<f, d>>])
    /\ (last.op \in GateOps /\ ~isPremium) =>
          IF last.ok
          THEN passes[<<last.key, today>>] <= LimitOf(last.key)
          ELSE passes[<<last.key, today>>] = LimitOf(last.key)
    /\ \A f \in AllKeys :
          (build = "A" /\ pc = "idle" /\ ~isPremium
              /\ passes[<<f, today>>] = LimitOf(f))
          => getRemainingUses(f) = Num(0)

\* C1 witness: the third check of a free user on "prompt" is denied with
\* two uses recorded and no use remaining.
C1_Witness ==
    /\ ~isPremium
    /\ last.op = "hasReachedDailyLimit" /\ last.key = "prompt" /\ ~last.ok
    /\ passes[<<"prompt", today>>] = 2
    /\ StoredCount("prompt", today) = Num(2)
    /\ getRemainingUses("prompt") = Num(0)

\* C2: for a premium user the gate passes for every feature key in every
\* reachable counter state, also with today's counter at or above the
\* limit, and remainingUses is unbounded.
C2_PremiumAlwaysPasses ==
    isPremium =>
        /\ \A f \in AllKeys :
              /\ ~hasReachedDailyLimit(f)
              /\ getRemainingUses(f) = Infinity
              /\ trackFeatureUsage(f, DefaultLimit)
        /\ last.op \in GateOps => last.ok

\* C2 witness: a premium user passes a check on a counter that is at the
\* limit.
C2_Witness ==
    /\ isPremium
    /\ last.op \in GateOps /\ last.ok
    /\ JsGeq(last.used, Num(LimitOf(last.key)))

\* C4: the day that keys a usage counter is the user's local calendar date
\* at the moment of the check.
C4_KeyedByLocalDate ==
    last.op # "none" => last.day = LocalDate(clock, tz)

\* C5: when the day rolls over the count of every feature on the new day is
\* 0, a free user has the full quota again, and no step changes a counter
\* recorded for a day other than the current one.
C5_RolloverResets ==
    [][ /\ today' # today =>
              \A f \in AllKeys :
                  /\ StoredCount(f, today)' = Num(0)
                  /\ (build = "A" /\ ~isPremium) =>
                        getRemainingUses(f)' = Num(getDailyUsageLimit(f))
        /\ \A f \in AllKeys, d \in Days :
              d # today' =>
                  /\ (CounterKey(f, d) \in DOMAIN storage')
                        = (CounterKey(f, d) \in DOMAIN storage)
                  /\ StoredCount(f, d)' = StoredCount(f, d)
      ]_vars

\* C5 witness: on a later day a free user's check passes although the
\* counter of the day before stands at the limit.
C5_Witness ==
    /\ today > 0
    /\ ~isPremium
    /\ last.op \in GateOps /\ last.ok /\ last.used = Num(0)
    /\ StoredCount(last.key, today - 1) = Num(LimitOf(last.key))

\* What the gate answers a free user u about feature f: the uses left.
RemainingFor(u, f) == MaxZeroMinus(LimitOf(f), StoredCount(f, today))

\* C7: counters are kept per user: a use recorded by the signed-in user
\* never changes the remaining uses (hence the decision) of another user.
C7_PerUserCounters ==
    [][ (session' = session /\ clock' = clock) =>
            \A u \in Users \ {session}, f \in AllKeys :
                RemainingFor(u, f)' = RemainingFor(u, f)
      ]_vars

\* The step is a recordUse of feature f: incrementUsageCounter in build A,
\* an approved trackFeatureUsage in build B.
IsRecordUse(f) ==
    \/ pc = "record" /\ last.key = f /\ last'.op = "incrementUsageCounter"
    \/ last'.op = "trackFeatureUsage" /\ last'.key = f /\ last'.ok

\* C8: recordUse leaves every counter unchanged for a premium user; for a
\* free user it sets today's counter of that key to its previous value plus
\* 1 (1 if absent) and leaves every other key and day unchanged.
C8_RecordUseFrame ==
    [][ \A f \in AllKeys :
          IsRecordUse(f) =>
            IF isPremium THEN storage' = storage
            ELSE /\ DOMAIN storage' = DOMAIN storage \cup {CounterKey(f, today)}
                 /\ storage'[CounterKey(f, today)] =
                        IF CounterKey(f, today) \in DOMAIN storage
                        THEN ToString(StoredCount(f, today).v + 1)
                        ELSE "1"
                 /\ \A k \in DOMAIN storage \ {CounterKey(f, today)} :
                        storage'[k] = storage[k]
      ]_vars

\* C8 witness: a free user's second use has been recorded.
C8_Witness ==
    /\ ~isPremium
    /\ last.op \in {"incrementUsageCounter", "trackFeatureUsage"} /\ last.ok
    /\ last.used = Num(1)
    /\ storage[CounterKey(last.key, today)] = "2"

\* C10 as stated: the lookup is 2 for the recognized keys and 1 for every
\* other key, and the limit the gate enforces for a key is the value of the
\* lookup for that key.
C10_LookupEnforced ==
    /\ \A f \in AllKeys :
          getDailyUsageLimit(f) = IF f \in RecognizedKeys THEN 2 ELSE 1
    /\ (last.op \in GateOps /\ ~isPremium) =>
          (last.ok <=> ~JsGeq(last.used, Num(getDailyUsageLimit(last.key))))

\* C10 amended: the lookup is 2 for the recognized keys and 1 for every other
\* key; hasReachedDailyLimit enforces the lookup, and trackFeatureUsage
\* enforces its limit argument, 2 by default, whatever the key.
C10_LookupEnforcedPerBuild ==
    /\ \A f \in AllKeys :
          getDailyUsageLimit(f) = IF f \in RecognizedKeys THEN 2 ELSE 1
    /\ (last.op = "hasReachedDailyLimit" /\ ~isPremium) =>
          (last.ok <=> ~JsGeq(last.used, Num(getDailyUsageLimit(last.key))))
    /\ (last.op = "trackFeatureUsage" /\ ~isPremium) =>
          (last.ok <=> ~JsGeq(last.used, Num(DefaultLimit)))

\* C10 witness: trackFeatureUsage approves a second use of an unlisted key.
C10_Witness ==
    /\ ~isPremium
    /\ last.op = "trackFeatureUsage" /\ last.key = "other"
    /\ last.ok /\ last.used = Num(1)

\* The counter an invocation of feature f through the application uses.
AppCounterKey(f, d) ==
    IF build = "A" THEN UsageKey(f, d) ELSE FeatureKey(HookKey(f), d)

AppStoredCount(f, d) == ParseInt(GetItemOrZero(AppCounterKey(f, d)))

\* C3: an invocation of an AI-assisted feature that the gate approves
\* increments today's counter exactly once: once the handlers have run,
\* today's counter of a feature equals the number of calls made for free
\* users to the AI collaborator for it today.
C3_CountedOncePerInvocation ==
    pc = "idle" =>
        \A f \in AppFeatures :
            AppStoredCount(f, today) = Num(aiCalls[<<f, today>>])

\* C6: when the stored value of today's counter cannot be read as a count,
\* the gate denies the free user.
C6_FailsClosed ==
    (last.op \in GateOps /\ ~isPremium /\ last.used = NaN) => ~last.ok

\* The operations that invoke a feature, in the hooks and in the
\* application.
HookOps == {"generatePrompt", "generateMoodQuote"}
InvokeOps == HookOps \cup
    {"handleGenerateNewPrompt", "handleSubmit", "generateMoodQuoteForMood"}

RowsOf(u, b) == {r \in user_badges : r.user_id = u /\ r.badge_id = b}

\* check_and_award_badges(target) run on the current tables.
EvaluateNow(target) ==
    check_and_award_badges(target, profiles, journal_entries, user_badges,
                           date, uniqueIndex)

\* C11: in every reachable state there is at most one user_badges row per
\* (user, badge), and evaluating a user's badges twice in a row returns
\* without error and leaves the same user_badges rows and the same
\* total_badges_earned as evaluating once.
C11_NeverEarnedTwice ==
    /\ \A u \in Users, b \in BadgeIds : Cardinality(RowsOf(u, b)) <= 1
    /\ \A target \in TargetIds :
          LET once == EvaluateNow(target)
              twice == check_and_award_badges(target, once.profiles,
                           journal_entries, once.badges, date, uniqueIndex)
          IN /\ once.ok /\ twice.ok
             /\ twice.badges = once.badges
             /\ twice.profiles = once.profiles

C11_Witness ==
    /\ BadgeCount("alice", user_badges) >= 1
    /\ BadgeCount("alice", EvaluateNow("alice").badges)
          > BadgeCount("alice", user_badges)

\* C12: a user_badges row, once there, is there in every later state,
\* whatever the step: an entry inserted or deleted, a goal or a subscription
\* changed, an evaluation.
C12_EarnedIsPermanent ==
    [][ \A r \in user_badges : r \in user_badges' ]_vars

\* C12 witness: a user holds the Premium Member badge with the subscription
\* cancelled, after a further write and evaluation.
C12_Witness ==
    /\ HasBadge("alice", "Premium Member", user_badges)
    /\ profiles["alice"].subscription_status = "cancelled"
    /\ writes = MaxWrites


\* The badges of the catalog whose criteria user u meets now.
MatchingBadges(u) ==
    {Catalog[i].id : i \in {j \in 1..Len(Catalog) :
        /\ Catalog[j].type \in RecognizedTypes
        /\ CriteriaMet(Catalog[j], u, profiles[u], journal_entries, date)}}

\* C13: when two evaluations of the same user run concurrently, no
\* (user, badge) pair gets a second row, neither evaluation fails, and once
\* both have ended every badge whose criteria match is held.
C13_ConcurrentEvaluationsSafe ==
    /\ \A u \in Users, b \in BadgeIds : Cardinality(RowsOf(u, b)) <= 1
    /\ \A s \in Sessions : txn[s].pc # "failed"
    /\ \A s \in Sessions :
          txn[s].pc = "done" /\ txn[s].target \in Users =>
              \A b \in MatchingBadges(txn[s].target) :
                  HasBadge(txn[s].target, b, user_badges)


\* The catalog rows of criteria type subscription.
SubscriptionBadges ==
    {Catalog[i] : i \in {j \in 1..Len(Catalog) :
                            Catalog[j].type = "subscription"}}

\* The rule of the claim: status premium, and the tier of the criteria is
\* the tier of the profile, or is premium with a profile of tier premium or
\* premium_plus.
C14_Rule(profile, tier) ==
    /\ profile.subscription_status = "premium"
    /\ \/ tier = profile.subscription_tier
       \/ /\ tier = "premium"
          /\ profile.subscription_tier \in {"premium", "premium_plus"}

\* C14: a step that evaluates a user awards a subscription badge the user
\* does not hold iff the rule holds of the profile at that moment; no
\* subscription badge is awarded while the status is free, cancelled or
\* expired, and none of tier premium_plus to a profile of tier premium.
C14_SubscriptionBadgeRule ==
    [][ \A u \in Users, badge \in SubscriptionBadges :
          ~HasBadge(u, badge.id, user_badges) =>
             /\ HasBadge(u, badge.id, user_badges')
                   <=> C14_Rule(profiles'[u], badge.tier)
             /\ HasBadge(u, badge.id, user_badges') =>
                   /\ profiles'[u].subscription_status
                         \notin {"free", "cancelled", "expired"}
                   /\ ~(badge.tier = "premium_plus"
                        /\ profiles'[u].subscription_tier = "premium") ]_vars

\* C14 witness: a premium profile of tier premium holds the badge of tier
\* premium and not the one of tier premium_plus.
C14_Witness ==
    /\ profiles["alice"].subscription_status = "premium"
    /\ profiles["alice"].subscription_tier = "premium"
    /\ HasBadge("alice", "Premium Member", user_badges)
    /\ ~HasBadge("alice", "Premium Plus", user_badges)

\* The subscription columns of u differ between the two states of a step.
SubscriptionChanged(u) ==
    \/ profiles'[u].subscription_status # profiles[u].subscription_status
    \/ profiles'[u].subscription_tier # profiles[u].subscription_tier

\* C15 as stated: every step that takes the status of a profile from free
\* to premium ends with Premium Member earned.
C15_PremiumMemberOnUpgrade ==
    [][ \A u \in Users :
          /\ profiles[u].subscription_status = "free"
          /\ profiles'[u].subscription_status = "premium"
          => HasBadge(u, "Premium Member", user_badges') ]_vars

\* C15 amended: a step that changes subscription_status or
\* subscription_tier of a user ends in a state a badge evaluation of that
\* user has nothing to add to; when it takes the status from free to
\* premium with tier premium or premium_plus, Premium Member is earned; a
\* later change of the status to cancelled leaves it earned.
C15_EvaluatedOnSubscriptionChange ==
    [][ \A u \in Users :
          /\ SubscriptionChanged(u) =>
                LET r == check_and_award_badges(u, profiles',
                             journal_entries', user_badges', date',
                             uniqueIndex')
                IN r.ok /\ r.badges = user_badges' /\ r.profiles = profiles'
          /\ (/\ profiles[u].subscription_status = "free"
              /\ profiles'[u].subscription_status = "premium"
              /\ profiles'[u].subscription_tier \in {"premium", "premium_plus"})
                => HasBadge(u, "Premium Member", user_badges')
          /\ (/\ HasBadge(u, "Premium Member", user_badges)
              /\ profiles'[u].subscription_status = "cancelled")
                => HasBadge(u, "Premium Member", user_badges') ]_vars

\* C15 witness: a profile that went to premium with tier premium_plus and
\* was cancelled afterwards holds both subscription badges.
C15_Witness ==
    /\ profiles["alice"].subscription_status = "cancelled"
    /\ profiles["alice"].subscription_tier = "premium_plus"
    /\ HasBadge("alice", "Premium Member", user_badges)
    /\ HasBadge("alice", "Premium Plus", user_badges)


\* C16: the entry_count badge of target EntryCountTarget is absent while
\* every completed evaluation of the user ran with fewer entries than the
\* target, and present, with earned_at set, once an evaluation has run with
\* at least that many.
C16_EntryCountBadge ==
    \A u \in Users :
       /\ HasBadge(u, "Entries", user_badges)
             <=> evalSeen[u] >= EntryCountTarget
       /\ \A r \in RowsOf(u, "Entries") :
             r.earned_at # NoDate /\ r.earned_at \in 0..date

\* C16 witness: the evaluation that awarded the badge ran with exactly the
\* target number of entries.
C16_Witness ==
    /\ HasBadge("alice", "Entries", user_badges)
    /\ evalSeen["alice"] = EntryCountTarget
    /\ EntryCount("alice", journal_entries) = EntryCountTarget

\* C17: the badge of the unrecognized criteria type early_supporter is
\* never awarded; no evaluation raises an error; an evaluation leaves every
\* badge of a recognized type whose criteria match held, and
\* total_badges_earned recounted.
C17_UnknownCriteriaSkipped ==
    /\ \A r \in user_badges : r.badge_id # "Early Supporter"
    /\ \A u \in Users :
          LET r == EvaluateNow(u)
          IN /\ r.ok
             /\ ~HasBadge(u, "Early Supporter", r.badges)
             /\ \A b \in MatchingBadges(u) : HasBadge(u, b, r.badges)
             /\ r.profiles[u].total_badges_earned = BadgeCount(u, r.badges)

\* C17 witness: an evaluation run now awards Weekly Goal, a catalog row
\* after the early_supporter one, and changes the stored total.
C17_Witness ==
    /\ ~HasBadge("alice", "Weekly Goal", user_badges)
    /\ HasBadge("alice", "Weekly Goal", EvaluateNow("alice").badges)
    /\ EvaluateNow("alice").profiles["alice"].total_badges_earned
          # profiles["alice"].total_badges_earned

\* C18: total_badges_earned of every profile is the number of user_badges
\* rows of its user.
C18_TotalIsRowCount ==
    \A u \in Users :
       profiles[u].total_badges_earned = BadgeCount(u, user_badges)

\* C18 witness: two users hold badges, one of them two.
C18_Witness ==
    /\ profiles["alice"].total_badges_earned >= 2
    /\ profiles["bob"].total_badges_earned >= 1


\* The data of user u: the profile, the entries, the user_badges rows.
DataOf(u, P, E, B) ==
    [profile |-> P[u],
     entries |-> [e \in {x \in DOMAIN E : x.user_id = u} |-> E[e]],
     badges |-> {r \in B : r.user_id = u}]

\* What an evaluation leaves for user u, apart from the serial ids of the
\* rows: the profile and the badges with their dates.
OutcomeFor(u, r) ==
    [ok |-> r.ok,
     profile |-> r.profiles[u],
     badges |-> {<<x.badge_id, x.earned_at>> :
                    x \in {y \in r.badges : y.user_id = u}}]

\* The tables with the data of every user but u removed.
OthersWiped(u) ==
    [profiles |-> [o \in Users |-> IF o = u THEN profiles[o] ELSE NewProfile],
     entries |-> DataOf(u, profiles, journal_entries, user_badges).entries,
     badges |-> {r \in user_badges : r.user_id = u}]

\* The tables with the data of every user but u replaced: a subscriber of
\* tier premium_plus on a streak, with one entry of each kind on every day
\* and every badge of the catalog.
OthersRich(u) ==
    [profiles |-> [o \in Users |-> IF o = u THEN profiles[o]
                     ELSE [NewProfile EXCEPT
                             !.subscription_status = "premium",
                             !.subscription_tier = "premium_plus",
                             !.current_streak = MaxDate + 1,
                             !.best_streak = MaxDate + 1,
                             !.last_entry_date = date,
                             !.journaling_goal_frequency = 1,
                             !.total_badges_earned = Cardinality(BadgeIds)]],
     entries |-> DataOf(u, profiles, journal_entries, user_badges).entries
                 (+) SetToBag({[user_id |-> o, date |-> d, mood |-> k[1],
                                length |-> k[2]] :
                               o \in Users \ {u}, d \in 0..MaxDate,
                               k \in EntryKinds}),
     badges |-> {r \in user_badges : r.user_id = u}
                \cup {[id |-> 0, user_id |-> o, badge_id |-> b,
                       earned_at |-> 0] : o \in Users \ {u}, b \in BadgeIds}]

\* C19: an evaluation of user u leaves the data of every other user as it
\* was, and what it leaves for u is the same whatever the data of the other
\* users is; a step of the database changes the data of one user at most.
C19_EvaluationIsPerUser ==
    /\ [](\A u \in Users :
            LET r == EvaluateNow(u)
                w == OthersWiped(u)
                h == OthersRich(u)
            IN /\ \A o \in Users \ {u} :
                     DataOf(o, r.profiles, journal_entries, r.badges)
                        = DataOf(o, profiles, journal_entries, user_badges)
               /\ OutcomeFor(u, r)
                     = OutcomeFor(u, check_and_award_badges(u, w.profiles,
                           w.entries, w.badges, date, uniqueIndex))
               /\ OutcomeFor(u, r)
                     = OutcomeFor(u, check_and_award_badges(u, h.profiles,
                           h.entries, h.badges, date, uniqueIndex)))
    /\ [][ \A u \in Users :
             DataOf(u, profiles', journal_entries', user_badges')
                # DataOf(u, profiles, journal_entries, user_badges)
             => \A o \in Users \ {u} :
                   DataOf(o, profiles', journal_entries', user_badges')
                      = DataOf(o, profiles, journal_entries, user_badges)
       ]_vars

\* C19 witness: both users have been evaluated over entries of their own,
\* and hold different badges.
C19_Witness ==
    /\ HasBadge("alice", "Long Entry", user_badges)
    /\ HasBadge("bob", "First Step", user_badges)
    /\ ~HasBadge("bob", "Long Entry", user_badges)
    /\ EntryCount("bob", journal_entries) = 1


\* The days on which user u has an entry.
DatesOf(u) == {e.date : e \in EntriesOf(u, journal_entries)}

\* C20: after any sequence of entry insertions, whose dates never decrease,
\* current_streak is the length of the run of consecutive days with an
\* entry that ends at the last inserted date, which is last_entry_date.
C20_StreakIsTrailingRun ==
    \A u \in Users :
       IF DatesOf(u) = {}
       THEN /\ profiles[u].current_streak = 0
            /\ profiles[u].last_entry_date = NoDate
       ELSE /\ profiles[u].last_entry_date = LastDate(DatesOf(u))
            /\ profiles[u].current_streak
                  = TrailingRun(LastDate(DatesOf(u)), DatesOf(u))

\* C20 witness: after an entry on day 0 and none on day 1, entries on the
\* days 2 and 3 make a streak of 2.
C20_Witness ==
    /\ DatesOf("alice") = {0, 2, 3}
    /\ profiles["alice"].current_streak = 2


\* ----------------------------------------------------- claims: streaks
\* The days on which user u has an entry after the step.
DatesOfNext(u) == {e.date : e \in EntriesOf(u, journal_entries')}

\* The step inserts, or deletes, an entry of user u.
InsertsEntryOf(u) ==
    EntryCount(u, journal_entries') > EntryCount(u, journal_entries)
DeletesEntryOf(u) ==
    EntryCount(u, journal_entries') < EntryCount(u, journal_entries)

\* The run of consecutive days with an entry ending at the most recent of
\* a set of dates; 0 for no dates.
RunOf(dates) ==
    IF dates = {} THEN 0 ELSE TrailingRun(LastDate(dates), dates)

\* C21: the insert of an entry dated D sets current_streak to 1 when
\* last_entry_date is absent, leaves it when D is last_entry_date, adds 1
\* when D is the day after last_entry_date, sets it to 1 after a gap of two
\* days or more; afterwards last_entry_date is D.
C21_InsertTransition ==
    [][ \A u \in Users :
          InsertsEntryOf(u) =>
             LET old == profiles[u]
                 new == profiles'[u]
                 D == date
             IN /\ new.last_entry_date = D
                /\ old.last_entry_date = NoDate => new.current_streak = 1
                /\ (old.last_entry_date # NoDate /\ D = old.last_entry_date)
                      => new.current_streak = old.current_streak
                /\ (old.last_entry_date # NoDate
                    /\ D = old.last_entry_date + 1)
                      => new.current_streak = old.current_streak + 1
                /\ (old.last_entry_date # NoDate
                    /\ D >= old.last_entry_date + 2)
                      => new.current_streak = 1 ]_vars

\* C21 witness: a streak of 2 over the days 0 and 1 was followed by a gap
\* and an entry on day 3, which set the streak to 1.
C21_Witness ==
    /\ profiles["alice"].best_streak = 2
    /\ profiles["alice"].current_streak = 1
    /\ profiles["alice"].last_entry_date = 3
    /\ EntryCount("alice", journal_entries) = 3
    /\ DatesOf("alice") = {0, 1, 3}

\* C22: best_streak never decreases, and is never below current_streak in
\* any state, so that it is at least every value current_streak has had.
C22_BestStreakMonotone ==
    /\ [](\A u \in Users :
            profiles[u].best_streak >= profiles[u].current_streak)
    /\ [][ \A u \in Users :
             /\ profiles'[u].best_streak >= profiles[u].best_streak
             /\ profiles'[u].best_streak >= profiles'[u].current_streak
       ]_vars

\* C22 witness: after deletes the streak is back at 0 and best_streak still
\* holds the 2 once reached.
C22_Witness ==
    /\ profiles["alice"].best_streak = 2
    /\ profiles["alice"].current_streak = 0
    /\ DatesOf("alice") = {}

C24_RecomputeOrderInsensitive ==
    (\A s \in Sessions : txn[s].pc = "idle") =>
       \A u \in Users :
          /\ profiles[u].current_streak = RunOf(DatesOf(u))
          /\ profiles[u].best_streak >= profiles[u].current_streak
          /\ DatesOf(u) # {} =>
                /\ profiles[u].last_entry_date = LastDate(DatesOf(u))
                /\ StreakOnInsert(profiles[u], LastDate(DatesOf(u)))
                      = profiles[u]


\* ---------------------------------------------------- claims: useJournal
\* type MoodLevel = 1 | 2 | 3 | 4 | 5
MoodLevels == 1..5

\* The call ended with a failed result and a message, wrote nothing to the
\* store and left the local entries and profile as they were.
Rejected(op) ==
    /\ journal'.result.op = op
    /\ ~journal'.result.success
    /\ journal'.result.error # "none"
    /\ UNCHANGED <<profiles, journal_entries, user_badges, writes>>
    /\ journal'.entries = journal.entries
    /\ journal'.hasProfile = journal.hasProfile
    /\ journal'.profile = journal.profile

\* C25: addEntry and updateEntry with a content that is empty or only
\* whitespace, or with a mood that is no MoodLevel, and updateJournalingGoal
\* with a frequency outside 1..7, are rejected before any mutation.
C25_ValidationBeforeMutation ==
    [][ /\ \A content \in Contents, mood \in MoodInputs,
              insertOk, profileOk, badgesOk \in BOOLEAN :
              (/\ addEntry(content, mood, insertOk, profileOk, badgesOk)
               /\ (Trim(content) = <<>> \/ mood \notin MoodLevels))
                 => Rejected("addEntry")
        /\ \A e \in BagToSet(journal_entries), content \in Contents,
              mood \in MoodInputs, updateOk \in BOOLEAN :
              (/\ updateEntry(e, content, mood, updateOk)
               /\ (Trim(content) = <<>> \/ mood \notin MoodLevels))
                 => Rejected("updateEntry")
        /\ \A frequency \in FrequencyInputs, updateOk, badgesOk \in BOOLEAN :
              (/\ updateJournalingGoal(frequency, updateOk, badgesOk)
               /\ frequency \notin MinFrequency..MaxFrequency)
                 => Rejected("updateJournalingGoal") ]_vars


\* A call of addEntry has returned in this step: the last call the hook
\* answered is addEntry and the day has not changed.
AddEntryReturns == journal'.result.op = "addEntry" /\ date' = date

\* C26: addEntry reports success iff the row was inserted. When the insert
\* did not happen the result carries a message, and the local list and the
\* database are as before; when it happened the local list has gained
\* exactly the inserted row and success is reported, whether or not the
\* reload of the profile and of the badges succeeded.
C26_AddEntrySuccessIffInserted ==
    [][ AddEntryReturns
        => LET inserted == BagCardinality(journal_entries')
                           = BagCardinality(journal_entries) + 1
               res == journal'.result
           IN /\ res.success <=> inserted
              /\ ~inserted =>
                    /\ res.error # "none"
                    /\ journal'.entries = journal.entries
                    /\ UNCHANGED <<profiles, journal_entries, user_badges>>
              /\ inserted =>
                    /\ res.error = "none"
                    /\ journal'.entries (-) journal.entries
                          = journal_entries' (-) journal_entries
                    /\ BagCardinality(journal'.entries)
                          = BagCardinality(journal.entries) + 1 ]_vars

\* C26 witness: an entry was saved while the reload of the profile failed:
\* success was reported, the local list holds the entry, no profile is
\* loaded.
C26_Witness ==
    /\ journal.result = Success("addEntry")
    /\ BagCardinality(journal.entries) = 1
    /\ ~journal.hasProfile
    /\ EntryCount("alice", journal_entries) = 1

\* --------------------------------------------- claims: notifications
\* The notifications shown for badge b.
ToastsFor(b) == Cardinality({i \in 1..Len(journal.toasts) : journal.toasts[i] = b})

\* C27: every badge that is earned in the loaded list and was not earned
\* when the list was first loaded has been notified exactly once, the
\* first badge of a user who had none included, and a badge earned at the
\* first load is never notified.
C27_BadgeNotifiedOnce ==
    journal.loaded =>
        \A b \in BadgeIds :
            ToastsFor(b) = IF b \in journal.badges \ journal.firstLoad
                           THEN 1 ELSE 0


\* --------------------------------------------- claims: mood analysis
\* C28: a free user starts at most getDailyUsageLimit('mood-analysis')
\* analyzeMood calls on one day through the debounced analysis.
C28_AnalysesWithinDailyLimit ==
    \A d \in 0..MaxDay :
        analysis.started[d] <= getDailyUsageLimit("mood-analysis")


\* -------------------------------------------- claims: failed AI calls
\* The gate denies an invocation of feature f made now.
GateDeniesApp(f) ==
    IF build = "A" THEN hasReachedDailyLimit(f)
    ELSE ~trackFeatureUsage(HookKey(f), DefaultLimit)

CustomersOf(u) == {c \in billing.customers : c.userId = u}

\* C30: whatever requests were served, in whatever interleaving and with
\* whatever failures, the payment provider holds at most one customer of
\* one user.
C30_AtMostOneCustomer ==
    \A u \in Users : Cardinality(CustomersOf(u)) <= 1


====
